---- MODULE Spec2Model ----
(***************************************************************************)
(* Verification model of the bevy_logic simulation core: the LogicGraph    *)
(* resource (a petgraph DiGraphMap plus the compiled order), the           *)
(* step_logic system that evaluates one tick, and the fixed logic-step     *)
(* scheduler.                                                              *)
(***************************************************************************)
EXTENDS Integers, Sequences, FiniteSets, TLC

VARIABLES
    circuit,      \* index of the scene that setup built (fixed in a behaviour)
    graph,        \* LogicGraph::graph   (DiGraphMap<Entity, Entity>)
    sorted,       \* LogicGraph::sorted  (Vec<Entity>)
    compiled,     \* compile() has run at least once
    stale,        \* graph mutations since the last compile()
    scc_run,      \* outcome of the last kosaraju_scc run: [ok, steps, sccs]
    gate_alive,   \* gate entities that exist with LogicGateFans and a LogicGate
    sig,          \* Signal component of every fan entity (Absent: no such component)
    out_wires,    \* GateOutput::wires of every output fan
    wire_alive,   \* wire entities that exist with their Wire component
    wire_sig,     \* Signal component of every wire entity
    pc,           \* "idle", "stepping" (inside step_logic) or "panicked"
    idx,          \* step_logic: position in sorted of the next gate
    eval_log,     \* step_logic: the gates evaluate was invoked for in this pass
    last_eval,    \* step_logic: what the last processed gate was handed and wrote
    panic,        \* the message of the panic that ended the program, or "none"
    edits,        \* graph commands and despawns applied since setup
    cmd,          \* the last of them: [op, entity]
    time,         \* Time<LogicStep>: [timestep, overstep, elapsed]
    update,       \* run_fixed_main_schedule: [pc, delta, start, passes, count] and,
                  \* over all updates, [accumulated, ticks, steady]
    logic,        \* Source, Sink and Wire signals of the Update-schedule circuit
    desync,       \* Desync component of every gate and wire of that circuit
    commands,     \* LogicCommands: [desync]
    tick,         \* Update: [phase, count, runs, skipped, op]
    selector,     \* Selector: [stale_cycle_input]
    sel_outputs,  \* Signal of the selector's output fans
    sel_hist,     \* evaluations of the selector: [evals, inputs, prev_outputs]
    counter,      \* Counter: [current, target, signal_strength, stale_inputs]
    cnt_output,   \* Signal of the counter's output fan
    cnt_hist,     \* calls on the counter: [calls, op, inputs, prev_inputs, prev_current]
                  \* and, while its output feeds its reset input, the count
                  \* inputs held and the outputs written: [start, looped, held,
                  \* loop_outputs]
    calc,         \* one call of a Signal operation or of a gate's evaluate:
                  \* [op, args, outputs, pending, result]
    keypad        \* the UI buttons: [interaction, reserve_changed, release_changed,
                  \* signal, wire, input, ticks, op]

gvars == <<circuit, graph, sorted, compiled, stale, scc_run>>
wvars == <<gate_alive, sig, out_wires, wire_alive, wire_sig>>
tvars == <<pc, idx, eval_log, last_eval, panic>>
svars == <<time, update>>
dvars == <<logic, desync, commands, tick>>
selvars == <<selector, sel_outputs, sel_hist>>
cntvars == <<counter, cnt_output, cnt_hist>>
xvars == <<dvars, selvars, cntvars, calc, keypad>>
evars == <<edits, cmd, svars, xvars>>
vars == <<gvars, wvars, tvars, evars>>

(***************************************************************************)
(* Entities.  A gate is a small integer; a fan (port) entity is the triple *)
(* <<gate, side, slot>>, so that its Parent is its first component; a wire *)
(* entity is its index in the scene's wire list.                           *)
(***************************************************************************)
None == <<0, "none", 0>>
In(g, i) == <<g, "in", i>>
Out(g, i) == <<g, "out", i>>
Parent(port) == port[1]

\* Uncompiled raw mutations the model follows after a first compile().
MaxStale == 2
\* Graph commands and despawns the model follows after setup.
MaxEdits == 2

(***************************************************************************)
(* Scenes.  Each one is what a setup function builds with spawn_gate /     *)
(* build_inputs / build_outputs / spawn_wire: the gate kinds, their fan    *)
(* lists (LogicFans, a None slot being an unset fan) and the wires.        *)
(***************************************************************************)
W(f, t) == [from |-> f, to |-> t]

Diamond ==
    [ kind    |-> <<"BatteryOn", "Not", "Not", "And">>,
      inputs  |-> << <<>>, <<In(2,1)>>, <<In(3,1)>>, <<In(4,1), In(4,2)>> >>,
      outputs |-> << <<Out(1,1)>>, <<Out(2,1)>>, <<Out(3,1)>>, <<Out(4,1)>> >>,
      wires   |-> << W(Out(3,1), In(4,2)), W(Out(2,1), In(4,1)),
                     W(Out(1,1), In(3,1)), W(Out(1,1), In(2,1)) >> ]

\* examples/3d: a NOT gate wired to itself, feeding a second NOT and an OR
\* whose first input slot was left unset (LogicFans::with_input(None)).
NotLoop ==
    [ kind    |-> <<"Not", "Not", "Or">>,
      inputs  |-> << <<In(1,1)>>, <<In(2,1)>>, <<None, In(3,2)>> >>,
      outputs |-> << <<Out(1,1)>>, <<Out(2,1)>>, <<Out(3,1)>> >>,
      wires   |-> << W(Out(1,1), In(1,1)), W(Out(1,1), In(2,1)),
                     W(Out(2,1), In(3,2)) >> ]

\* A two-gate feedback ring with a tail.
Ring ==
    [ kind    |-> <<"Not", "Not", "And">>,
      inputs  |-> << <<In(1,1)>>, <<In(2,1)>>, <<In(3,1), In(3,2)>> >>,
      outputs |-> << <<Out(1,1)>>, <<Out(2,1)>>, <<Out(3,1)>> >>,
      wires   |-> << W(Out(1,1), In(2,1)), W(Out(2,1), In(1,1)),
                     W(Out(2,1), In(3,1)), W(Out(1,1), In(3,2)) >> ]

\* Two batteries driving the same input fan; the first has two output fans,
\* so two wires run between the same pair of gates.
FanIn ==
    [ kind    |-> <<"BatteryOn", "BatteryOff", "And">>,
      inputs  |-> << <<>>, <<>>, <<In(3,1), In(3,2)>> >>,
      outputs |-> << <<Out(1,1), Out(1,2)>>, <<Out(2,1)>>, <<Out(3,1)>> >>,
      wires   |-> << W(Out(1,1), In(3,1)), W(Out(2,1), In(3,1)),
                     W(Out(1,2), In(3,2)) >> ]

Circuits == <<Diamond, NotLoop, Ring, FanIn>>

Scene == Circuits[circuit]
Gates == 1..Len(Scene.kind)
Wires == 1..Len(Scene.wires)
from_gate(w) == Parent(Scene.wires[w].from)
to_gate(w) == Parent(Scene.wires[w].to)

InputFans == UNION {{Scene.inputs[g][i] : i \in 1..Len(Scene.inputs[g])} : g \in Gates} \ {None}
OutputFans == UNION {{Scene.outputs[g][i] : i \in 1..Len(Scene.outputs[g])} : g \in Gates} \ {None}
Fans == InputFans \cup OutputFans

(***************************************************************************)
(* logic::signal::Signal.  The f32 payload of Analog is an integer here:   *)
(* the finite values are counted in quarters, F32.one being 1.0, values    *)
(* below F32.min_positive in magnitude are zero or subnormal, a sum beyond *)
(* MaxFloat overflows to an infinity, and NaN is a value of its own.       *)
(* Rounding of finite sums is not modelled.                                *)
(***************************************************************************)
MaxFloat == 8
F32 == [one |-> 4, min_positive |-> 2,
        infinity |-> MaxFloat + 1, nan |-> MaxFloat + 2]
Floats == (-F32.infinity..F32.infinity) \cup {F32.nan}

\* f32: -a, a.abs(), a >= b and a + b
f32_neg(a) == IF a = F32.nan THEN a ELSE -a
f32_abs(a) == IF a < 0 THEN -a ELSE a
f32_ge(a, b) == a # F32.nan /\ b # F32.nan /\ a >= b
f32_add(a, b) ==
    CASE a = F32.nan \/ b = F32.nan -> F32.nan
      [] f32_abs(a) = F32.infinity /\ f32_abs(b) = F32.infinity ->
            IF a = b THEN a ELSE F32.nan
      [] f32_abs(a) = F32.infinity -> a
      [] f32_abs(b) = F32.infinity -> b
      [] a + b > MaxFloat -> F32.infinity
      [] a + b < -MaxFloat -> -F32.infinity
      [] OTHER -> a + b

Analog(v) == <<"Analog", v>>
Digital(b) == <<"Digital", IF b THEN 1 ELSE 0>>
Undefined == <<"Undefined", 0>>
ON == Digital(TRUE)
OFF == Digital(FALSE)
NEG == Analog(-F32.one)
\* A fan entity without a Signal component (despawned).
Absent == <<"Absent", 0>>

\* A test that takes every non-zero value for normal.
is_nonzero(v) == v # 0

\* f32::is_normal: neither zero, subnormal, infinite nor NaN
is_normal(v) == F32.min_positive <= f32_abs(v) /\ f32_abs(v) <= MaxFloat

is_truthy(s) ==
    CASE s = ON -> TRUE
      [] s[1] = "Analog" -> is_normal(s[2])
      [] OTHER -> FALSE

is_falsy(s) ==
    CASE s = ON -> FALSE
      [] s[1] = "Analog" -> ~is_normal(s[2])
      [] OTHER -> TRUE

\* The gates call Signal::is_true, which signal.rs does not define; their
\* truth tables are stated over truthy inputs.
is_true(s) == is_truthy(s)

\* An addition that takes Undefined for OFF.
add_lenient(lhs, rhs) ==
    CASE lhs = Undefined -> rhs
      [] rhs = Undefined -> lhs
      [] OTHER -> Digital(lhs = ON \/ rhs = ON)

\* impl Add for Signal
add(lhs, rhs) ==
    CASE lhs = Undefined \/ rhs = Undefined -> Undefined
      [] lhs[1] = "Analog" /\ rhs[1] = "Analog" -> Analog(f32_add(lhs[2], rhs[2]))
      [] lhs[1] = "Analog" /\ rhs[1] = "Digital" ->
            Analog(f32_add(lhs[2], IF rhs = ON THEN F32.one ELSE 0))
      [] lhs[1] = "Digital" /\ rhs[1] = "Analog" ->
            Analog(f32_add(rhs[2], IF lhs = ON THEN F32.one ELSE 0))
      [] OTHER -> Digital(lhs = ON \/ rhs = ON)

\* impl Sub for Signal
sub(lhs, rhs) ==
    CASE lhs = Undefined \/ rhs = Undefined -> Undefined
      [] lhs[1] = "Analog" /\ rhs[1] = "Analog" ->
            Analog(f32_add(lhs[2], f32_neg(rhs[2])))
      [] lhs[1] = "Analog" /\ rhs = ON -> Analog(f32_add(lhs[2], -F32.one))
      [] lhs[1] = "Analog" /\ rhs = OFF -> lhs
      [] lhs = ON /\ rhs[1] = "Analog" -> Analog(f32_add(F32.one, f32_neg(rhs[2])))
      [] lhs = OFF /\ rhs[1] = "Analog" -> Analog(f32_neg(rhs[2]))
      [] lhs = ON /\ rhs = OFF -> ON
      [] OTHER -> OFF

\* Signal::max_abs
max_abs(self, other) ==
    CASE self[1] = "Analog" /\ other[1] = "Analog" ->
            IF f32_ge(f32_abs(self[2]), f32_abs(other[2])) THEN self ELSE other
      [] self[1] = "Analog" /\ other = OFF -> IF is_normal(self[2]) THEN self ELSE OFF
      [] self = OFF /\ other[1] = "Analog" -> IF is_normal(other[2]) THEN other ELSE OFF
      [] self[1] = "Analog" /\ other = ON ->
            IF f32_ge(f32_abs(self[2]), F32.one) THEN self ELSE ON
      [] self = ON /\ other[1] = "Analog" ->
            IF f32_ge(f32_abs(other[2]), F32.one) THEN other ELSE ON
      [] self = OFF /\ other = OFF -> OFF
      [] self[1] = "Digital" /\ other[1] = "Digital" /\ (self = ON \/ other = ON) -> ON
      [] self = Undefined -> other
      [] OTHER -> self

\* impl Not for Signal
not(s) ==
    CASE s[1] = "Analog" -> Analog(f32_neg(s[2]))
      [] s[1] = "Digital" -> Digital(s = OFF)
      [] OTHER -> Undefined

all_true(inputs) == \A i \in 1..Len(inputs) : is_true(inputs[i])
any_true(inputs) == \E i \in 1..Len(inputs) : is_true(inputs[i])

RECURSIVE fold_add(_, _)
fold_add(acc, inputs) ==
    IF inputs = <<>> THEN acc ELSE fold_add(add(acc, Head(inputs)), Tail(inputs))

set_all(outputs, signal) == [i \in 1..Len(outputs) |-> signal]

\* The width of i8, the narrowest of the integer types is_odd is
\* implemented for; the wider ones differ in the bits above the lowest.
I8_BITS == 8
I8 == (-(2 ^ (I8_BITS - 1)))..(2 ^ (I8_BITS - 1) - 1)

\* The two's-complement bits of n, lowest first, and the integer they stand for.
to_bits(n) ==
    LET u == IF n < 0 THEN n + 2 ^ I8_BITS ELSE n
    IN [i \in 1..I8_BITS |-> (u \div 2 ^ (i - 1)) % 2]
RECURSIVE from_bits(_)
from_bits(b) ==
    IF b = <<>> THEN 0
    ELSE IF Len(b) = 1 THEN -b[1]
    ELSE Head(b) + 2 * from_bits(Tail(b))

\* a & b
bitand(a, b) == from_bits([i \in 1..I8_BITS |-> to_bits(a)[i] * to_bits(b)[i]])

\* A test of the lowest bit that takes the even numbers.
is_even(n) == bitand(n, 1) = 0

\* A test of the remainder, which is -1 for the negative odd numbers.
is_odd_by_remainder(n) == n > 0 /\ n % 2 = 1

\* NumExt::is_odd: (self & 1) == 1
is_odd(n) == bitand(n, 1) = 1

\* Gates that test for any true input where the code tests for all, and an
\* OrGate that forgets invert_output.
AndGate_evaluate_any(inputs, outputs) == set_all(outputs, Digital(any_true(inputs)))
NotGate_evaluate_any(inputs, outputs) == set_all(outputs, Digital(~any_true(inputs)))
OrGate_evaluate_plain(is_adder, invert_output, inputs, outputs) ==
    set_all(outputs, IF is_adder THEN fold_add(OFF, inputs) ELSE Digital(any_true(inputs)))

\* LogicGate::evaluate of AndGate, NotGate, OrGate and Battery: the new
\* contents of `outputs`.
AndGate_evaluate(inputs, outputs) == set_all(outputs, Digital(all_true(inputs)))
\* A NotGate that forgets the negation.
NotGate_evaluate_buffer(inputs, outputs) == set_all(outputs, Digital(all_true(inputs)))
NotGate_evaluate(inputs, outputs) == set_all(outputs, Digital(~all_true(inputs)))
OrGate_evaluate(is_adder, invert_output, inputs, outputs) ==
    LET signal == IF is_adder THEN fold_add(OFF, inputs) ELSE Digital(any_true(inputs))
    IN set_all(outputs, IF invert_output THEN not(signal) ELSE signal)
Battery_evaluate(signal, outputs) == set_all(outputs, signal)

\* The XOR gate of the gate catalogue, which the crate does not define:
\* true iff the number of truthy inputs is odd.
XorGate_evaluate(inputs, outputs) ==
    set_all(outputs,
            Digital(is_odd(Cardinality({i \in 1..Len(inputs) : is_truthy(inputs[i])}))))

\* logic/gates.rs, LogicNode::evaluate: the outcomes [panic, outputs].  The
\* assert_eq! on the lengths is compiled with debug assertions only; the
\* zip copies as many signals as both sides have.
LogicNode_evaluate(inputs, outputs) ==
    LET zipped == [i \in 1..Len(outputs) |->
                      IF i <= Len(inputs) THEN inputs[i] ELSE outputs[i]]
    IN IF Len(inputs) = Len(outputs)
       THEN {[panic |-> FALSE, outputs |-> zipped]}
       ELSE {[panic |-> TRUE, outputs |-> outputs], [panic |-> FALSE, outputs |-> zipped]}

evaluate(kind, inputs, outputs) ==
    CASE kind = "And" -> AndGate_evaluate(inputs, outputs)
      [] kind = "Not" -> NotGate_evaluate(inputs, outputs)
      [] kind = "Or" -> OrGate_evaluate(FALSE, FALSE, inputs, outputs)
      [] kind = "Nor" -> OrGate_evaluate(FALSE, TRUE, inputs, outputs)
      [] kind = "Adder" -> OrGate_evaluate(TRUE, FALSE, inputs, outputs)
      [] kind = "BatteryOn" -> Battery_evaluate(ON, outputs)
      [] kind = "BatteryOff" -> Battery_evaluate(OFF, outputs)
      [] kind = "BatteryNeg" -> Battery_evaluate(NEG, outputs)

(***************************************************************************)
(* petgraph::graphmap::GraphMap<N, E, Directed>:                           *)
(*   nodes: IndexMap<N, Vec<(N, CompactDirection)>>  -> nodes (key order)  *)
(*                                                      and adj            *)
(*   edges: IndexMap<(N, N), E>                       -> edges             *)
(***************************************************************************)
EmptyGraph == [nodes |-> <<>>, adj |-> [g \in Gates |-> <<>>], edges |-> <<>>]

Link(n, dir) == [n |-> n, dir |-> dir]
Opposite(dir) == IF dir = "Outgoing" THEN "Incoming" ELSE "Outgoing"

contains_node(g, n) == \E i \in 1..Len(g.nodes) : g.nodes[i] = n
contains_edge(g, a, b) == <<a, b>> \in DOMAIN g.edges

\* Vec::swap_remove / IndexMap::swap_remove: the last element takes the place
\* of the removed one.
swap_remove(s, i) ==
    IF i = Len(s) THEN SubSeq(s, 1, Len(s) - 1)
    ELSE [SubSeq(s, 1, Len(s) - 1) EXCEPT ![i] = s[Len(s)]]

\* Iterator::position
position(s, x) ==
    IF \E i \in 1..Len(s) : s[i] = x
    THEN CHOOSE i \in 1..Len(s) : s[i] = x /\ \A j \in 1..(i - 1) : s[j] # x
    ELSE 0

\* self.nodes.entry(n).or_insert(Vec::new())
add_node(g, n) ==
    IF contains_node(g, n) THEN g
    ELSE [g EXCEPT !.nodes = Append(@, n), !.adj[n] = <<>>]

Insert(f, k, v) == [x \in (DOMAIN f) \cup {k} |-> IF x = k THEN v ELSE f[x]]
Remove(f, k) == [x \in (DOMAIN f) \ {k} |-> f[x]]

\* GraphMap::add_edge: a known (a, b) only has its weight replaced; a new one
\* is pushed to both adjacency lists (a self loop has no Incoming entry).
add_edge(g, a, b, weight) ==
    IF contains_edge(g, a, b)
    THEN [g EXCEPT !.edges = Insert(@, <<a, b>>, weight)]
    ELSE LET g1 == add_node(g, a)
             g2 == [g1 EXCEPT !.adj[a] = Append(@, Link(b, "Outgoing"))]
             g3 == IF a # b
                   THEN LET g4 == add_node(g2, b)
                        IN [g4 EXCEPT !.adj[b] = Append(@, Link(a, "Incoming"))]
                   ELSE g2
         IN [g3 EXCEPT !.edges = Insert(@, <<a, b>>, weight)]

\* GraphMap::remove_single_edge
remove_single_edge(g, a, b, dir) ==
    IF ~contains_node(g, a) THEN g
    ELSE LET index == position(g.adj[a], Link(b, dir))
         IN IF index = 0 THEN g
            ELSE [g EXCEPT !.adj[a] = swap_remove(@, index)]

\* GraphMap::remove_edge
remove_edge(g, a, b) ==
    LET g1 == remove_single_edge(g, a, b, "Outgoing")
        g2 == IF a # b THEN remove_single_edge(g1, b, a, "Incoming") ELSE g1
    IN [g2 EXCEPT !.edges = Remove(@, <<a, b>>)]

\* The loop of GraphMap::remove_node over the removed node's links.
RECURSIVE remove_links(_, _, _)
remove_links(g, n, links) ==
    IF links = <<>> THEN g
    ELSE LET succ == Head(links).n
             dir == Head(links).dir
             edge == IF dir = "Outgoing" THEN <<n, succ>> ELSE <<succ, n>>
             g1 == remove_single_edge(g, succ, n, Opposite(dir))
         IN remove_links([g1 EXCEPT !.edges = Remove(@, edge)], n, Tail(links))

\* GraphMap::remove_node
remove_node(g, n) ==
    IF ~contains_node(g, n) THEN g
    ELSE LET links == g.adj[n]
             g1 == [g EXCEPT !.nodes = swap_remove(@, position(@, n)),
                             !.adj[n] = <<>>]
         IN remove_links(g1, n, links)

\* GraphMap::neighbors_directed: the adjacency list in order, keeping the
\* links of that direction and every self loop.
RECURSIVE neighbors_directed_of(_, _, _)
neighbors_directed_of(links, a, dir) ==
    IF links = <<>> THEN <<>>
    ELSE (IF Head(links).dir = dir \/ Head(links).n = a
          THEN <<Head(links).n>> ELSE <<>>)
         \o neighbors_directed_of(Tail(links), a, dir)

neighbors_directed(g, a, dir) == neighbors_directed_of(g.adj[a], a, dir)

(***************************************************************************)
(* petgraph::algo::kosaraju_scc, as LogicGraph::compile calls it.  The two *)
(* depth-first walks are run loop iteration by loop iteration; `steps`     *)
(* counts the iterations and `ok` turns FALSE when they pass StepLimit.    *)
(***************************************************************************)
\* A visit that does not record the node.
visit_forgets(set, n) == set

\* A lookup that never finds a node.
is_visited_never(set, n) == FALSE

\* VisitMap::visit / is_visited on the HashSet of discovered nodes.
visit(set, n) == set \cup {n}
is_visited(set, n) == n \in set

RECURSIVE unvisited(_, _)
unvisited(succs, discovered) ==
    IF succs = <<>> THEN <<>>
    ELSE (IF is_visited(discovered, Head(succs)) THEN <<>> ELSE <<Head(succs)>>)
         \o unvisited(Tail(succs), discovered)

\* Both walks together take at most 3V + 2E loop iterations.
StepLimit(g) == 3 * Len(g.nodes) + 2 * Cardinality(DOMAIN g.edges)

\* DfsPostOrder::next on Reversed(g), driven until the stack is empty; every
\* node it returns is pushed to finish_order.
RECURSIVE post_order(_, _)
post_order(g, st) ==
    IF st.stack = <<>> THEN st
    ELSE IF st.steps >= StepLimit(g) THEN [st EXCEPT !.ok = FALSE]
    ELSE LET nx == st.stack[Len(st.stack)]
         IN IF ~is_visited(st.discovered, nx)
            THEN LET d == visit(st.discovered, nx)
                 IN post_order(g, [st EXCEPT
                        !.discovered = d,
                        !.stack = @ \o unvisited(neighbors_directed(g, nx, "Incoming"), d),
                        !.steps = @ + 1])
            ELSE post_order(g, [st EXCEPT
                        !.stack = SubSeq(@, 1, Len(@) - 1),
                        !.finished = visit(@, nx),
                        !.finish_order = IF is_visited(st.finished, nx) THEN @
                                         ELSE Append(@, nx),
                        !.steps = @ + 1])

\* First phase: for i in g.node_identifiers(), skipping discovered nodes.
RECURSIVE first_phase(_, _, _)
first_phase(g, ids, st) ==
    IF ids = <<>> \/ ~st.ok THEN st
    ELSE IF is_visited(st.discovered, Head(ids)) THEN first_phase(g, Tail(ids), st)
    ELSE first_phase(g, Tail(ids), post_order(g, [st EXCEPT !.stack = <<Head(ids)>>]))

\* Dfs::next on g, driven until the stack is empty; the nodes it returns
\* make one component.
RECURSIVE dfs(_, _)
dfs(g, st) ==
    IF st.stack = <<>> THEN st
    ELSE IF st.steps >= StepLimit(g) THEN [st EXCEPT !.ok = FALSE]
    ELSE LET node == st.stack[Len(st.stack)]
             rest == SubSeq(st.stack, 1, Len(st.stack) - 1)
         IN IF ~is_visited(st.discovered, node)
            THEN LET d == visit(st.discovered, node)
                 IN dfs(g, [st EXCEPT
                        !.discovered = d,
                        !.stack = rest \o unvisited(neighbors_directed(g, node, "Outgoing"), d),
                        !.scc = Append(@, node),
                        !.steps = @ + 1])
            ELSE dfs(g, [st EXCEPT !.stack = rest, !.steps = @ + 1])

\* A second phase that takes finish_order front to back (a dropped .rev()):
\* order is consumed from its head.
RECURSIVE second_phase_forward(_, _, _)
second_phase_forward(g, order, st) ==
    IF order = <<>> \/ ~st.ok THEN st
    ELSE LET i == Head(order)
             rest == Tail(order)
         IN IF i \in st.discovered THEN second_phase_forward(g, rest, st)
            ELSE LET run == dfs(g, [st EXCEPT !.stack = <<i>>, !.scc = <<>>])
                 IN second_phase_forward(g, rest, [run EXCEPT !.sccs = Append(@, run.scc)])

\* Second phase: for i in finish_order.into_iter().rev().
RECURSIVE second_phase(_, _, _)
second_phase(g, order, st) ==
    IF order = <<>> \/ ~st.ok THEN st
    ELSE LET i == order[Len(order)]
             rest == SubSeq(order, 1, Len(order) - 1)
         IN IF is_visited(st.discovered, i) THEN second_phase(g, rest, st)
            ELSE LET run == dfs(g, [st EXCEPT !.stack = <<i>>, !.scc = <<>>])
                 IN second_phase(g, rest, [run EXCEPT !.sccs = Append(@, run.scc)])

kosaraju_scc(g) ==
    LET p1 == first_phase(g, g.nodes,
                  [stack |-> <<>>, discovered |-> {}, finished |-> {},
                   finish_order |-> <<>>, steps |-> 0, ok |-> TRUE])
        p2 == second_phase(g, p1.finish_order,
                  [stack |-> <<>>, discovered |-> {}, scc |-> <<>>, sccs |-> <<>>,
                   steps |-> p1.steps, ok |-> p1.ok])
    IN [ok |-> p2.ok, steps |-> p2.steps, sccs |-> p2.sccs]

RECURSIVE flatten(_)
flatten(ss) == IF ss = <<>> THEN <<>> ELSE Head(ss) \o flatten(Tail(ss))

rev(s) == [i \in 1..Len(s) |-> s[Len(s) + 1 - i]]

\* compile without the .rev()
compile_unreversed(g) == flatten(kosaraju_scc(g).sccs)

\* LogicGraph::compile: the new value of `sorted`.
compile(g) == rev(flatten(kosaraju_scc(g).sccs))

\* LogicGraph::add_gate, add_wire, remove_gate, remove_wire
add_gate(g, gate_entity) == add_node(g, gate_entity)
\* An add_wire that connects only gates the graph already holds.
add_wire_between_nodes(g, a, b, wire_entity) ==
    IF contains_node(g, a) /\ contains_node(g, b) THEN add_edge(g, a, b, wire_entity) ELSE g
add_wire(g, a, b, wire_entity) == add_edge(g, a, b, wire_entity)
remove_gate(g, gate_entity) == remove_node(g, gate_entity)
remove_wire(g, a, b) == remove_edge(g, a, b)

(***************************************************************************)
(* logic::schedule.  Durations are whole units of time.                    *)
(***************************************************************************)
MaxTimestep == 3
MaxDelta == 4
MaxUpdates == 3
\* More passes than one update can need with a positive timestep.
MaxPasses == MaxTimestep + MaxDelta

ZERO == 0
\* lib.rs inserts Time::<LogicStep>::from_seconds(0.5): two units of time.
HalfSecond == 2

\* #[derive(Default)] on LogicStep and Time's own Default
Default == [timestep |-> ZERO, overstep |-> ZERO, elapsed |-> ZERO]

\* Duration::checked_sub: NoDuration stands for Option::None
NoDuration == -1
\* A checked_sub that also fails on equal durations.
checked_sub_strict(a, b) == IF a > b THEN a - b ELSE NoDuration
checked_sub(a, b) == IF a >= b THEN a - b ELSE NoDuration
saturating_sub(a, b) == IF a >= b THEN a - b ELSE ZERO

advance_by(t, delta) == [t EXCEPT !.elapsed = @ + delta]
\* An accumulate that drops what was left over.
accumulate_overwrites(t, delta) == [t EXCEPT !.overstep = delta]
accumulate(t, delta) == [t EXCEPT !.overstep = @ + delta]
discard_overstep(t, discard) ==
    [t EXCEPT !.overstep = saturating_sub(t.overstep, discard)]

\* expend: [ok |-> the returned bool, time |-> the clock afterwards]
expend(t) ==
    LET new_value == checked_sub(t.overstep, t.timestep)
    IN IF new_value # NoDuration
       THEN [ok |-> TRUE, time |-> advance_by([t EXCEPT !.overstep = new_value], t.timestep)]
       ELSE [ok |-> FALSE, time |-> t]
from_duration(timestep) == [Default EXCEPT !.timestep = timestep]

NoUpdate ==
    [pc |-> "idle", delta |-> ZERO, start |-> Default, passes |-> 0, count |-> 0,
     accumulated |-> ZERO, ticks |-> 0, steady |-> TRUE]

\* A scene without the Update-schedule circuit, without a selector and
\* without a counter.
NoDesyncCircuit ==
    /\ logic = <<>>
    /\ desync = <<>>
    /\ commands = [desync |-> 0, spawned |-> <<>>, calls |-> 0]
    /\ tick = [phase |-> "none"]
NoSelector == selector = <<>> /\ sel_outputs = <<>> /\ sel_hist = <<>>
NoCounter == counter = <<>> /\ cnt_output = <<>> /\ cnt_hist = <<>>
NoCall == calc = <<>>
NoKeypad == keypad = <<>>

(***************************************************************************)
(* The LogicGraph resource driven call by call, as setup code and the      *)
(* LogicGraphData impls drive it: any order of add / remove calls on the   *)
(* gates and wires of the scene, and compile().                            *)
(***************************************************************************)
NoRun == [ok |-> TRUE, steps |-> 0, sccs |-> <<>>]
\* No command has been applied since setup.
NoCommand == [op |-> "none", entity |-> 0]
\* step_logic has processed no gate yet.
NoEval == [gate |-> 0, fans |-> <<>>, inputs |-> <<>>, outputs |-> <<>>, signals |-> <<>>]

\* LogicGraph::default()
InitGraph ==
    /\ circuit \in 1..Len(Circuits)
    /\ graph = EmptyGraph
    /\ sorted = <<>>
    /\ compiled = FALSE
    /\ stale = 0
    /\ scc_run = NoRun
    /\ gate_alive = Gates
    /\ sig = [f \in Fans |-> Undefined]
    /\ out_wires = [f \in OutputFans |-> {}]
    /\ wire_alive = Wires
    /\ wire_sig = [w \in Wires |-> Undefined]
    /\ pc = "idle"
    /\ idx = 1
    /\ eval_log = <<>>
    /\ last_eval = NoEval
    /\ panic = "none"
    /\ edits = 0
    /\ cmd = NoCommand
    /\ time = from_duration(HalfSecond)
    /\ update = NoUpdate
    /\ NoDesyncCircuit /\ NoSelector /\ NoCounter /\ NoCall /\ NoKeypad

MayMutate == ~compiled \/ stale < MaxStale
Mutated(g) ==
    /\ graph' = g
    /\ stale' = IF compiled THEN stale + 1 ELSE 0
    /\ UNCHANGED <<circuit, sorted, compiled, scc_run, wvars, tvars, evars>>

CallAddGate(n) == MayMutate /\ Mutated(add_gate(graph, n))
CallAddWire(w) == MayMutate /\ Mutated(add_wire(graph, from_gate(w), to_gate(w), w))
CallRemoveGate(n) == MayMutate /\ Mutated(remove_gate(graph, n))
CallRemoveWire(w) == MayMutate /\ Mutated(remove_wire(graph, from_gate(w), to_gate(w)))
CallCompile ==
    /\ sorted' = compile(graph)
    /\ scc_run' = kosaraju_scc(graph)
    /\ compiled' = TRUE
    /\ stale' = 0
    /\ UNCHANGED <<circuit, graph, wvars, tvars, evars>>

NextGraph ==
    \/ \E n \in Gates : CallAddGate(n)
    \/ \E w \in Wires : CallAddWire(w)
    \/ \E n \in Gates : CallRemoveGate(n)
    \/ \E w \in Wires : CallRemoveWire(w)
    \/ CallCompile

SpecGraph == InitGraph /\ [][NextGraph]_vars

(***************************************************************************)
(* systems::step_logic, one loop iteration (one gate of sorted) per step.  *)
(***************************************************************************)

\* A gate lookup that cannot fail (the Err arm skipped instead of expect).
has_logic_gate_always(entity) == TRUE

\* logic_entities.get_mut(entity), wires.get_mut(entity) and gate_fans.get(fan)
\* succeed for an entity that exists with the queried components.
has_logic_gate(entity) == entity \in gate_alive
has_wire(entity) == entity \in wire_alive
has_signal(fan) == sig[fan] # Absent

\* fans.inputs.iter().filter_map(..): the signals of the input fans that are
\* set and have a Signal.
RECURSIVE input_signals(_)
input_signals(inputs) ==
    IF inputs = <<>> THEN <<>>
    ELSE (IF Head(inputs) = None \/ ~has_signal(Head(inputs)) THEN <<>>
          ELSE <<sig[Head(inputs)]>>)
         \o input_signals(Tail(inputs))

\* fans.outputs.iter().filter_map(..).unzip(): the output fans that are set
\* and have a Signal; output_signals holds their current signals.
RECURSIVE output_entities(_)
output_entities(outputs) ==
    IF outputs = <<>> THEN <<>>
    ELSE (IF Head(outputs) = None \/ ~has_signal(Head(outputs)) THEN <<>>
          ELSE <<Head(outputs)>>)
         \o output_entities(Tail(outputs))

output_signals(ents) == [i \in 1..Len(ents) |-> sig[ents[i]]]

\* The orders in which a wire set (a hash set) can be iterated.
RECURSIVE Orders(_)
Orders(ws) ==
    IF ws = {} THEN {<<>>}
    ELSE UNION {{<<w>> \o rest : rest \in Orders(ws \ {w})} : w \in ws}

\* One iteration order for the wire set of each of the output fans.
IterationOrders(ents) ==
    LET E == {ents[i] : i \in 1..Len(ents)}
    IN {order \in [E -> UNION {Orders(out_wires[e]) : e \in E}] :
           \A e \in E : order[e] \in Orders(out_wires[e])}

\* A wire loop that writes the destination of the first wire only.
RECURSIVE update_wires_first_only(_, _, _)
update_wires_first_only(st, ws, signal) ==
    IF ws = <<>> THEN st
    ELSE LET to == Scene.wires[Head(ws)].to
             st1 == [st EXCEPT !.wire_sig =
                        [w \in DOMAIN st.wire_sig |->
                            IF \E i \in 1..Len(ws) : ws[i] = w THEN signal
                            ELSE st.wire_sig[w]]]
         IN IF st1.sig[to] # Absent THEN [st1 EXCEPT !.sig[to] = signal] ELSE st1

\* A wire loop that writes a destination only while it is Undefined.
RECURSIVE update_wires_first_write_wins(_, _, _)
update_wires_first_write_wins(st, ws, signal) ==
    IF ws = <<>> THEN st
    ELSE LET entity == Head(ws)
             to == Scene.wires[entity].to
             st1 == [st EXCEPT !.wire_sig[entity] = signal]
             st2 == IF st1.sig[to] = Undefined THEN [st1 EXCEPT !.sig[to] = signal]
                    ELSE st1
         IN update_wires_first_write_wins(st2, Tail(ws), signal)

\* for entity in out_going_wires.iter(): the wire's signal, and the signal of
\* wire.to if that fan has one; ws is the set in the order of the iteration.
RECURSIVE update_wires(_, _, _)
update_wires(st, ws, signal) ==
    IF ws = <<>> THEN st
    ELSE LET entity == Head(ws)
             to == Scene.wires[entity].to
             st1 == [st EXCEPT !.wire_sig[entity] = signal]
             st2 == IF st1.sig[to] # Absent THEN [st1 EXCEPT !.sig[to] = signal]
                    ELSE st1
         IN update_wires(st2, Tail(ws), signal)

\* for (entity, signal) in output_entities.iter().zip(output_signals)
RECURSIVE update_outputs(_, _, _, _)
update_outputs(st, ents, signals, order) ==
    IF ents = <<>> THEN st
    ELSE LET entity == Head(ents)
             signal == Head(signals)
             st1 == IF st.sig[entity] # Absent THEN [st EXCEPT !.sig[entity] = signal]
                    ELSE st
         IN update_outputs(update_wires(st1, order[entity], signal),
                           Tail(ents), Tail(signals), order)

\* What each input slot of a gate holds: Absent for an unset slot or a fan
\* without a Signal.
fan_signals(inputs) ==
    [i \in 1..Len(inputs) |-> IF inputs[i] = None THEN Absent ELSE sig[inputs[i]]]

Panicked(msg) ==
    /\ pc' = "panicked"
    /\ panic' = msg

\* A pass that starts at the second gate of sorted.
step_logic_begin_skips_first ==
    /\ pc = "idle"
    /\ pc' = "stepping"
    /\ idx' = IF sorted = <<>> THEN 1 ELSE 2
    /\ eval_log' = <<>>
    /\ last_eval' = NoEval
    /\ UNCHANGED <<gvars, wvars, panic, evars>>

step_logic_begin ==
    /\ pc = "idle"
    /\ pc' = "stepping"
    /\ idx' = 1
    /\ eval_log' = <<>>
    /\ last_eval' = NoEval
    /\ UNCHANGED <<gvars, wvars, panic, evars>>

step_logic_gate ==
    /\ pc = "stepping"
    /\ idx <= Len(sorted)
    /\ LET entity == sorted[idx]
           ents == output_entities(Scene.outputs[entity])
           inputs == input_signals(Scene.inputs[entity])
           signals == evaluate(Scene.kind[entity], inputs, output_signals(ents))
           written(order) ==
               update_outputs([sig |-> sig, wire_sig |-> wire_sig], ents, signals, order)
       IN IF ~has_logic_gate(entity)
          THEN /\ Panicked("Entity does not exist or does not have a LogicFans/LogicGate")
               /\ UNCHANGED <<gvars, wvars, idx, eval_log, last_eval>>
          ELSE IF \E i \in 1..Len(ents) : \E w \in out_wires[ents[i]] : ~has_wire(w)
          THEN /\ Panicked("Wire does not exist")
               /\ eval_log' = Append(eval_log, entity)
               /\ UNCHANGED <<gvars, wvars, idx, last_eval>>
          ELSE /\ \E order \in IterationOrders(ents) :
                     /\ sig' = written(order).sig
                     /\ wire_sig' = written(order).wire_sig
               /\ idx' = idx + 1
               /\ eval_log' = Append(eval_log, entity)
               /\ last_eval' = [gate |-> entity, fans |-> fan_signals(Scene.inputs[entity]),
                                inputs |-> inputs, outputs |-> ents, signals |-> signals]
               /\ UNCHANGED <<gvars, gate_alive, out_wires, wire_alive, pc, panic>>
    /\ UNCHANGED evars

\* The loop is over: the system returns (the log of the pass is dropped).
step_logic_end ==
    /\ pc = "stepping"
    /\ idx > Len(sorted)
    /\ pc' = "idle"
    /\ idx' = 1
    /\ eval_log' = <<>>
    /\ last_eval' = NoEval
    /\ UNCHANGED <<gvars, wvars, panic, evars>>

(***************************************************************************)
(* The world after a setup function ran: every gate, fan and wire of the   *)
(* scene spawned with Signal::Undefined, spawn_wire having filled the wire *)
(* sets, and the graph filled with add_data and compiled.                  *)
(***************************************************************************)
RECURSIVE add_gates(_, _)
add_gates(g, ns) ==
    IF ns = <<>> THEN g ELSE add_gates(add_gate(g, Head(ns)), Tail(ns))

\* impl LogicGraphData for Vec<WireData>
RECURSIVE add_wires(_, _)
add_wires(g, ws) ==
    IF ws = <<>> THEN g
    ELSE add_wires(add_wire(g, from_gate(Head(ws)), to_gate(Head(ws)), Head(ws)), Tail(ws))

GateSeq == [i \in 1..Len(Scene.kind) |-> i]
WireSeq == [i \in 1..Len(Scene.wires) |-> i]

\* examples/3d adds the gates first, examples/advanced_gates the wires first;
\* a setup may also leave the graph empty and fill it with commands.
SetupGraphs ==
    { add_wires(add_gates(EmptyGraph, GateSeq), WireSeq),
      add_gates(add_wires(EmptyGraph, WireSeq), GateSeq),
      EmptyGraph }

Init ==
    /\ circuit \in 1..Len(Circuits)
    /\ graph \in SetupGraphs
    /\ sorted = compile(graph)
    /\ scc_run = kosaraju_scc(graph)
    /\ compiled = TRUE
    /\ stale = 0
    /\ gate_alive = Gates
    /\ sig = [f \in Fans |-> Undefined]
    /\ out_wires = [f \in OutputFans |-> {w \in Wires : Scene.wires[w].from = f}]
    /\ wire_alive = Wires
    /\ wire_sig = [w \in Wires |-> Undefined]
    /\ pc = "idle"
    /\ idx = 1
    /\ eval_log = <<>>
    /\ last_eval = NoEval
    /\ panic = "none"
    /\ edits = 0
    /\ cmd = NoCommand
    /\ time = from_duration(HalfSecond)
    /\ update = NoUpdate
    /\ NoDesyncCircuit /\ NoSelector /\ NoCounter /\ NoCall /\ NoKeypad

(***************************************************************************)
(* commands.rs: the four graph commands.  Each applies between two runs of *)
(* step_logic and ends with compile().                                     *)
(***************************************************************************)
Edit ==
    /\ pc = "idle"
    /\ edits < MaxEdits
    /\ edits' = edits + 1
    /\ UNCHANGED <<svars, xvars>>

Did(op, entity) == cmd' = [op |-> op, entity |-> entity]

\* A command that forgets the trailing compile().
Compiled_not(g) ==
    /\ graph' = g
    /\ UNCHANGED <<circuit, sorted, compiled, stale, scc_run>>

Compiled(g) ==
    /\ graph' = g
    /\ sorted' = compile(g)
    /\ scc_run' = kosaraju_scc(g)
    /\ compiled' = TRUE
    /\ stale' = 0
    /\ UNCHANGED circuit

\* LogicFans::some_outputs
RECURSIVE flatten_fans(_)
flatten_fans(fs) ==
    IF fs = <<>> THEN <<>>
    ELSE (IF Head(fs) = None THEN <<>> ELSE <<Head(fs)>>) \o flatten_fans(Tail(fs))

some_outputs(entity) == flatten_fans(Scene.outputs[entity])

\* extract_outgoing_wires: the wires of every output fan, fan by fan.
RECURSIVE extract_outgoing_wires(_)
extract_outgoing_wires(outs) ==
    IF outs = <<>> THEN {<<>>}
    ELSE {a \o b : a \in Orders(out_wires[Head(outs)]),
                   b \in extract_outgoing_wires(Tail(outs))}

\* impl LogicGraphData for Vec<WireData>, with from_gate the added entity.
RECURSIVE add_data(_, _, _)
add_data(g, entity, wire_data) ==
    IF wire_data = <<>> THEN g
    ELSE add_data(add_wire(g, entity, to_gate(Head(wire_data)), Head(wire_data)),
                  entity, Tail(wire_data))

AddGateToLogicGraph(entity) ==
    /\ Edit
    /\ Did("AddGateToLogicGraph", entity)
    /\ LET outs == some_outputs(entity)
           ws == UNION {out_wires[outs[i]] : i \in 1..Len(outs)}
       IN IF entity \notin gate_alive
          THEN /\ Panicked("Cannot add an entity without LogicGateFans to the LogicGraph.")
               /\ UNCHANGED <<gvars, wvars, idx, eval_log, last_eval>>
          ELSE IF \E i \in 1..Len(outs) : sig[outs[i]] = Absent
          THEN /\ Panicked("Entity stored in LogicGateFans::outputs does not have a GateOutput component")
               /\ UNCHANGED <<gvars, wvars, idx, eval_log, last_eval>>
          ELSE IF ~(ws \subseteq wire_alive)
          THEN /\ Panicked("GateOutput should only store IDs to Wire entities")
               /\ UNCHANGED <<gvars, wvars, idx, eval_log, last_eval>>
          ELSE IF \E w \in ws : sig[Scene.wires[w].to] = Absent
          THEN /\ Panicked("GateInput should have a parent entity")
               /\ UNCHANGED <<gvars, wvars, idx, eval_log, last_eval>>
          ELSE /\ \E wire_data \in extract_outgoing_wires(outs) :
                    Compiled(add_data(add_gate(graph, entity), entity, wire_data))
               /\ UNCHANGED <<wvars, tvars>>

\* LogicGraph::iter_incoming_wires: (wire_entity, Wire { from, to }) for every
\* edge into the gate, from and to being the edge's two gate entities.
iter_incoming_wires(g, gate) ==
    LET froms == neighbors_directed(g, gate, "Incoming")
    IN [i \in 1..Len(froms) |->
            [wire_entity |-> g.edges[<<froms[i], gate>>], from |-> froms[i], to |-> gate]]

\* world.get_mut::<GateOutput>(entity) for a gate entity: spawn_gate gives a
\* gate no GateOutput, only its output fans carry one.
gate_has_GateOutput(entity) == FALSE

RemoveGateFromLogicGraph(entity) ==
    /\ Edit
    /\ Did("RemoveGateFromLogicGraph", entity)
    /\ LET incoming_wires == iter_incoming_wires(graph, entity)
       IN /\ Compiled(remove_gate(graph, entity))
          /\ IF \E i \in 1..Len(incoming_wires) : ~gate_has_GateOutput(incoming_wires[i].from)
             THEN /\ Panicked("Wire::from Entity does not have GateOutput component")
                  /\ UNCHANGED <<wvars, idx, eval_log, last_eval>>
             ELSE UNCHANGED <<wvars, tvars>>

AddWireToLogicGraph(wire_entity) ==
    /\ Edit
    /\ Did("AddWireToLogicGraph", wire_entity)
    /\ LET wire == Scene.wires[wire_entity]
       IN IF wire_entity \notin wire_alive
          THEN /\ Panicked("Entity does not have a Wire component")
               /\ UNCHANGED <<gvars, wvars, idx, eval_log, last_eval>>
          ELSE IF sig[wire.from] = Absent
          THEN /\ Panicked("Wire::from Entity does not have GateOutput component")
               /\ UNCHANGED <<gvars, wvars, idx, eval_log, last_eval>>
          ELSE /\ out_wires' = [out_wires EXCEPT ![wire.from] = @ \cup {wire_entity}]
               /\ UNCHANGED <<gate_alive, sig, wire_alive, wire_sig>>
               /\ IF sig[wire.to] = Absent
                  THEN /\ Panicked("GateInput does not have a parent gate")
                       /\ UNCHANGED <<gvars, idx, eval_log, last_eval>>
                  ELSE /\ Compiled(add_wire(graph, Parent(wire.from), Parent(wire.to),
                                            wire_entity))
                       /\ UNCHANGED tvars

RemoveWireFromLogicGraph(wire_entity) ==
    /\ Edit
    /\ Did("RemoveWireFromLogicGraph", wire_entity)
    /\ LET wire == Scene.wires[wire_entity]
       IN IF wire_entity \notin wire_alive
          THEN /\ Panicked("Entity does not have a Wire component")
               /\ UNCHANGED <<gvars, wvars, idx, eval_log, last_eval>>
          ELSE IF sig[wire.from] = Absent
          THEN /\ Panicked("Wire::from Entity does not have GateOutput component")
               /\ UNCHANGED <<gvars, wvars, idx, eval_log, last_eval>>
          ELSE /\ out_wires' = [out_wires EXCEPT ![wire.from] = @ \ {wire_entity}]
               /\ UNCHANGED <<gate_alive, sig, wire_alive, wire_sig>>
               /\ IF sig[wire.to] = Absent
                  THEN /\ Panicked("GateInput does not have a parent gate")
                       /\ UNCHANGED <<gvars, idx, eval_log, last_eval>>
                  ELSE /\ Compiled(remove_wire(graph, Parent(wire.from), Parent(wire.to)))
                       /\ UNCHANGED tvars

(***************************************************************************)
(* The host despawning an entity without telling the graph.                *)
(***************************************************************************)
DespawnGate(entity) ==
    /\ Edit /\ entity \in gate_alive
    /\ Did("despawn", 0)
    /\ gate_alive' = gate_alive \ {entity}
    /\ UNCHANGED <<gvars, sig, out_wires, wire_alive, wire_sig, tvars>>

DespawnFan(fan) ==
    /\ Edit /\ sig[fan] # Absent
    /\ Did("despawn", 0)
    /\ sig' = [sig EXCEPT ![fan] = Absent]
    /\ UNCHANGED <<gvars, gate_alive, out_wires, wire_alive, wire_sig, tvars>>

DespawnWire(wire_entity) ==
    /\ Edit /\ wire_entity \in wire_alive
    /\ Did("despawn", 0)
    /\ wire_alive' = wire_alive \ {wire_entity}
    /\ UNCHANGED <<gvars, gate_alive, sig, out_wires, wire_sig, tvars>>

Next ==
    \/ step_logic_begin
    \/ step_logic_gate
    \/ step_logic_end
    \/ \E e \in Gates : AddGateToLogicGraph(e)
    \/ \E e \in Gates : RemoveGateFromLogicGraph(e)
    \/ \E w \in Wires : AddWireToLogicGraph(w)
    \/ \E w \in Wires : RemoveWireFromLogicGraph(w)
    \/ \E e \in Gates : DespawnGate(e)
    \/ \E f \in Fans : DespawnFan(f)
    \/ \E w \in Wires : DespawnWire(w)

Spec == Init /\ [][Next]_vars

(***************************************************************************)
(* The fixed logic-step scheduler: run_fixed_main_schedule once per outer  *)
(* update, one turn of its while loop per step, and the calls an           *)
(* application may make on the clock between two updates.  An evaluation   *)
(* pass (schedule.run) is counted, not replayed.                           *)
(***************************************************************************)
InitSched ==
    /\ circuit = 1
    /\ graph = EmptyGraph
    /\ sorted = <<>>
    /\ compiled = FALSE
    /\ stale = 0
    /\ scc_run = NoRun
    /\ gate_alive = Gates
    /\ sig = [f \in Fans |-> Undefined]
    /\ out_wires = [f \in OutputFans |-> {}]
    /\ wire_alive = Wires
    /\ wire_sig = [w \in Wires |-> Undefined]
    /\ pc = "idle"
    /\ idx = 1
    /\ eval_log = <<>>
    /\ last_eval = NoEval
    /\ panic = "none"
    /\ edits = 0
    /\ cmd = NoCommand
    /\ \E timestep \in ZERO..MaxTimestep :
          time = IF timestep = ZERO THEN Default ELSE from_duration(timestep)
    /\ update = NoUpdate
    /\ NoDesyncCircuit /\ NoSelector /\ NoCounter /\ NoCall /\ NoKeypad

Between == pc = "idle" /\ update.pc \in {"idle", "done"}

\* let delta = ...; accumulate(delta)
RunFixedMainSchedule(delta) ==
    /\ Between
    /\ update.count < MaxUpdates
    /\ time' = accumulate(time, delta)
    /\ update' = [update EXCEPT !.pc = "expending", !.delta = delta, !.start = time,
                                !.passes = 0, !.count = @ + 1,
                                !.accumulated = @ + delta]
    /\ UNCHANGED <<gvars, wvars, tvars, edits, cmd, xvars>>

\* while expend() { schedule.run(world) }
ExpendAndRun ==
    /\ update.pc = "expending"
    /\ update.passes < MaxPasses
    /\ expend(time).ok
    /\ time' = expend(time).time
    /\ update' = [update EXCEPT !.passes = @ + 1, !.ticks = @ + 1]
    /\ UNCHANGED <<gvars, wvars, tvars, edits, cmd, xvars>>

\* expend() returned false: the loop and the system are over
ExpendEnds ==
    /\ update.pc = "expending"
    /\ ~expend(time).ok
    /\ time' = expend(time).time
    /\ update' = [update EXCEPT !.pc = "done"]
    /\ UNCHANGED <<gvars, wvars, tvars, edits, cmd, xvars>>

\* set_timestep: assert_ne!(timestep, Duration::ZERO)
SetTimestep(timestep) ==
    /\ Between
    /\ IF timestep = ZERO
       THEN /\ Panicked("attempted to set fixed timestep to zero")
            /\ UNCHANGED <<idx, eval_log, last_eval, svars>>
       ELSE /\ time' = [time EXCEPT !.timestep = timestep]
            /\ update' = [update EXCEPT !.pc = "idle",
                                        !.steady = @ /\ timestep = time.timestep]
            /\ UNCHANGED tvars
    /\ UNCHANGED <<gvars, wvars, edits, cmd, xvars>>

DiscardOverstep(discard) ==
    /\ Between
    /\ time' = discard_overstep(time, discard)
    /\ update' = [update EXCEPT !.pc = "idle", !.steady = FALSE]
    /\ UNCHANGED <<gvars, wvars, tvars, edits, cmd, xvars>>

NextSched ==
    \/ \E delta \in ZERO..MaxDelta : RunFixedMainSchedule(delta)
    \/ ExpendAndRun
    \/ ExpendEnds
    \/ \E timestep \in ZERO..MaxTimestep : SetTimestep(timestep)
    \/ \E discard \in 1..MaxDelta : DiscardOverstep(discard)

SpecSched == InitSched /\ [][NextSched]_vars

(***************************************************************************)
(***************************************************************************)
(* logic/mod.rs, logic/gates.rs, _logic/command_extensions.rs: the         *)
(* simulation of the Update schedule.  A gate owns Source and Sink         *)
(* children, a Wire copies its Source's signal to its Sink, and a gate or  *)
(* a wire may carry a Desync counter.  The circuit is a NotGate N wired to *)
(* itself (W1) and to an AndGate M (W2), so that signals change on every   *)
(* tick.                                                                   *)
(***************************************************************************)
MaxDesync == 2
MaxTicks == 4
MaxCalls == 3

\* Option<&mut Desync>: None, or Some of the u32 inside.  A u32 is kept as
\* the integer it stands for below 2^31 and as v - 2^32 from there on (its
\* 32 bits read as a signed integer), so u32::MAX is -1; `> 0` on a u32 is
\* `# 0` here.
NoDesync == <<>>
Some(v) == <<v>>

Oscillator ==
    [gates |-> [N |-> "Not", M |-> "And"],
     wires |-> [W1 |-> [source |-> "N", sink |-> "N"],
                W2 |-> [source |-> "N", sink |-> "M"]]]
OldGates == DOMAIN Oscillator.gates
OldWires == DOMAIN Oscillator.wires
Owners == OldGates \cup OldWires

\* The 3d scene, its graph and its clock play no part.
scene_vars == <<gvars, wvars, edits, cmd, svars>>
NoScene ==
    /\ circuit = 1
    /\ graph = EmptyGraph
    /\ sorted = <<>>
    /\ compiled = FALSE
    /\ stale = 0
    /\ scc_run = NoRun
    /\ gate_alive = {}
    /\ sig = <<>>
    /\ out_wires = <<>>
    /\ wire_alive = {}
    /\ wire_sig = <<>>
    /\ edits = 0
    /\ cmd = NoCommand
    /\ time = from_duration(HalfSecond)
    /\ update = NoUpdate

\* An owner that is never skipped.
blocked_never(d) == FALSE

\* if let Some(mut desync) = desync { if desync.0 > 0 { ... continue; } }
blocked(d) == d # NoDesync /\ d[1] # 0

\* desync.0 -= 1 for the skipped owners among S; the others take part.
Ticked(S) ==
    LET run == {o \in S : ~blocked(desync[o])}
    IN /\ desync' = [o \in Owners |->
                        IF o \in S \ run THEN Some(desync[o][1] - 1) ELSE desync[o]]
       /\ tick' = [tick EXCEPT
              !.phase = IF S = OldWires THEN "evaluate" ELSE "propagate",
              !.count = IF S = OldWires THEN @ ELSE @ + 1,
              !.runs = [o \in Owners |-> IF o \in run THEN @[o] + 1 ELSE @[o]],
              !.skipped = [o \in Owners |-> IF o \in S \ run THEN @[o] + 1 ELSE @[o]]]

\* Every sink of the circuit has one wire, so the order in which the query
\* yields the wires does not show in the result.
propagate_logic_signals ==
    /\ pc = "idle"
    /\ tick.phase = "propagate"
    /\ tick.count < MaxTicks
    /\ LET run == {w \in OldWires : ~blocked(desync[w])}
           source(w) == logic.source[Oscillator.wires[w].source]
       IN logic' = [logic EXCEPT
              !.wire = [w \in OldWires |-> IF w \in run THEN source(w) ELSE @[w]],
              !.sink = [g \in OldGates |->
                           LET w == CHOOSE v \in OldWires : Oscillator.wires[v].sink = g
                           IN IF w \in run THEN source(w) ELSE @[g]]]
    /\ Ticked(OldWires)
    /\ UNCHANGED <<commands, tvars, scene_vars, selvars, cntvars, calc, keypad>>

\* outputs start as Source::default() and are written back to the Source
\* children.
evaluate_logic_gates ==
    /\ pc = "idle"
    /\ tick.phase = "evaluate"
    /\ LET run == {g \in OldGates : ~blocked(desync[g])}
       IN logic' = [logic EXCEPT
              !.source = [g \in OldGates |->
                  IF g \in run
                  THEN evaluate(Oscillator.gates[g], <<logic.sink[g]>>, <<Undefined>>)[1]
                  ELSE @[g]]]
    /\ Ticked(OldGates)
    /\ UNCHANGED <<commands, tvars, scene_vars, selvars, cntvars, calc, keypad>>

\* self.0 += 2 and self.0 -= 1 on a u32.  Past the ends of the range the
\* operation panics where overflow checks are compiled in and wraps where
\* they are not.
increment(d) ==
    IF d \notin {-2, -1} THEN {[ok |-> TRUE, value |-> d + 2]}
    ELSE {[ok |-> FALSE, value |-> d], [ok |-> TRUE, value |-> d + 2]}
decrement(d) ==
    IF d # 0 THEN {[ok |-> TRUE, value |-> d - 1]}
    ELSE {[ok |-> FALSE, value |-> d], [ok |-> TRUE, value |-> d - 1]}

Called(r, entity, msg) ==
    /\ commands' = [desync |-> r.value,
                    spawned |-> commands.spawned \o entity,
                    calls |-> commands.calls + 1]
    /\ IF r.ok THEN UNCHANGED tvars
       ELSE Panicked(msg) /\ UNCHANGED <<idx, eval_log, last_eval>>
    /\ UNCHANGED <<logic, desync, tick, scene_vars, selvars, cntvars, calc, keypad>>

\* LogicCommands::spawn, spawn_empty: the entity gets the counter, then
\* self.desync.increment()
LogicCommands_spawn ==
    /\ pc = "idle"
    /\ commands.calls < MaxCalls
    /\ \E r \in increment(commands.desync) :
          Called(r, <<Some(commands.desync)>>, "attempt to add with overflow")

\* LogicCommands::spawn_sync: an entity without a counter
LogicCommands_spawn_sync ==
    /\ pc = "idle"
    /\ commands.calls < MaxCalls
    /\ Called([ok |-> TRUE, value |-> commands.desync], <<NoDesync>>, "none")

\* Desync::decrement on the counter of the LogicCommands
Desync_decrement ==
    /\ pc = "idle"
    /\ commands.calls < MaxCalls
    /\ \E r \in decrement(commands.desync) :
          Called(r, <<>>, "attempt to subtract with overflow")

InitDesync ==
    /\ NoScene /\ NoSelector /\ NoCounter /\ NoCall /\ NoKeypad
    /\ pc = "idle"
    /\ idx = 1
    /\ eval_log = <<>>
    /\ last_eval = NoEval
    /\ panic = "none"
    /\ logic = [source |-> [g \in OldGates |-> Undefined],
                sink |-> [g \in OldGates |-> Undefined],
                wire |-> [w \in OldWires |-> Undefined]]
    /\ desync \in [Owners -> {NoDesync} \cup {Some(n) : n \in 0..MaxDesync}]
    /\ commands = [desync |-> 0, spawned |-> <<>>, calls |-> 0]
    /\ tick = [phase |-> "propagate", count |-> 0, start |-> desync,
               runs |-> [o \in Owners |-> 0], skipped |-> [o \in Owners |-> 0]]

NextDesync ==
    \/ propagate_logic_signals
    \/ evaluate_logic_gates
    \/ LogicCommands_spawn
    \/ LogicCommands_spawn_sync
    \/ Desync_decrement

SpecDesync == InitDesync /\ [][NextDesync]_vars

(***************************************************************************)
(* examples/advanced_gates: the Selector.  It has N outputs and N + 1      *)
(* inputs, of which the first is the cycle input; its output fans keep     *)
(* their signals from one evaluation to the next.  Positions are counted   *)
(* from 1 here: input 0 of the source is inputs[1].                        *)
(***************************************************************************)
MaxOutputs == 3
MaxEvals == 3

InputSignals == {OFF, ON, NEG}

\* Signal::replace
\* A replace that keeps the old signal.
replace_keeps(self, new) == self
replace(self, new) == IF new # self THEN new ELSE self

\* The first truthy input, which is what find_position without rev() finds.
lowest_truthy(inputs) ==
    IF \E i \in 1..Len(inputs) : is_truthy(inputs[i])
    THEN CHOOSE i \in 1..Len(inputs) :
            is_truthy(inputs[i]) /\ \A j \in 1..(i - 1) : ~is_truthy(inputs[j])
    ELSE 0

\* inputs.iter().rev().find_position(is_truthy), index flipped; 0 is None
highest_truthy(inputs) ==
    IF \E i \in 1..Len(inputs) : is_truthy(inputs[i])
    THEN CHOOSE i \in 1..Len(inputs) :
            is_truthy(inputs[i]) /\ \A j \in (i + 1)..Len(inputs) : ~is_truthy(inputs[j])
    ELSE 0

\* impl LogicGate for Selector: the new [self, outputs]
Selector_evaluate(self, inputs, outputs) ==
    LET index == highest_truthy(inputs)
        N == Len(outputs)
        \* outputs.iter_mut().skip_while(|o| o.is_falsy()).next()
        active == IF \E i \in 1..N : is_truthy(outputs[i])
                  THEN CHOOSE i \in 1..N :
                          is_truthy(outputs[i]) /\ \A j \in 1..(i - 1) : ~is_truthy(outputs[j])
                  ELSE 0
        off == IF active = 0 THEN outputs ELSE [outputs EXCEPT ![active] = OFF]
        next == IF active # 0 /\ active < N THEN active + 1 ELSE 1
    IN CASE index = 0 ->
              [self |-> [stale_cycle_input |-> FALSE],
               outputs |-> IF \A i \in 1..N : ~is_truthy(outputs[i])
                           THEN [outputs EXCEPT ![1] = ON] ELSE outputs]
         [] index = 1 /\ self.stale_cycle_input ->
              [self |-> self, outputs |-> outputs]
         [] index = 1 /\ ~self.stale_cycle_input ->
              [self |-> [stale_cycle_input |-> TRUE],
               outputs |-> [off EXCEPT ![next] = replace(@, inputs[1])]]
         [] OTHER ->
              [self |-> self,
               outputs |-> [set_all(outputs, OFF) EXCEPT
                               ![index - 1] = replace(@, inputs[index])]]

\* step_logic hands the gate the signals of its input and output fans and
\* writes the outputs back.
EvaluateSelector(inputs) ==
    /\ sel_hist.evals < MaxEvals
    /\ LET r == Selector_evaluate(selector, inputs, sel_outputs)
       IN /\ selector' = r.self
          /\ sel_outputs' = r.outputs
    /\ sel_hist' = [evals |-> sel_hist.evals + 1, inputs |-> inputs,
                    prev_outputs |-> sel_outputs]
    /\ UNCHANGED <<tvars, scene_vars, dvars, cntvars, calc, keypad>>

InitSelector ==
    /\ NoScene /\ NoDesyncCircuit /\ NoCounter /\ NoCall /\ NoKeypad
    /\ pc = "idle"
    /\ idx = 1
    /\ eval_log = <<>>
    /\ last_eval = NoEval
    /\ panic = "none"
    /\ selector = [stale_cycle_input |-> FALSE]
    /\ \E N \in 1..MaxOutputs : sel_outputs = [i \in 1..N |-> Undefined]
    /\ sel_hist = [evals |-> 0, inputs |-> <<>>, prev_outputs |-> <<>>]

NextSelector ==
    \E inputs \in [1..(Len(sel_outputs) + 1) -> InputSignals] : EvaluateSelector(inputs)

SpecSelector == InitSelector /\ [][NextSelector]_vars

(***************************************************************************)
(* examples/advanced_gates: the Counter, with its reset input (input 0,    *)
(* inputs[1] here), its count input (input 1, inputs[2] here) and its one  *)
(* output.  current and target are i8; no call moves current out of        *)
(* 0..target, so the width never shows.                                    *)
(***************************************************************************)
MaxTarget == 2
MaxCounterCalls == 4

\* An increment without its test.
Counter_increment_unguarded(self) == [self EXCEPT !.current = @ + 1]

Counter_increment(self) ==
    IF self.current < self.target THEN [self EXCEPT !.current = @ + 1] ELSE self
Counter_decrement(self) ==
    IF self.current > 0 THEN [self EXCEPT !.current = @ - 1] ELSE self
\* A reset that leaves the count.
Counter_reset_keeps(self) == self
Counter_reset(self) == [self EXCEPT !.current = 0]

\* impl LogicGate for Counter: the new [self, output].  The f32 quotient of
\* signal_strength() is kept as the pair of its operands (0 / 0 is NaN).
Counter_evaluate(self, inputs, output) ==
    LET \* inputs.iter().find_position(|s| s.is_truthy()); 0 is None
        index == IF \E i \in 1..Len(inputs) : is_truthy(inputs[i])
                 THEN CHOOSE i \in 1..Len(inputs) :
                         is_truthy(inputs[i]) /\ \A j \in 1..(i - 1) : ~is_truthy(inputs[j])
                 ELSE 0
        is_sign_negative(s) == s[1] = "Analog" /\ s[2] < 0
        marked == [self EXCEPT !.stale_inputs[index] = TRUE]
        after == CASE index = 0 -> [self EXCEPT !.stale_inputs = <<FALSE, FALSE>>]
                   [] index = 1 -> Counter_reset(marked)
                   [] OTHER -> IF is_sign_negative(inputs[index])
                               THEN Counter_decrement(marked)
                               ELSE Counter_increment(marked)
        signal == IF after.signal_strength
                  THEN Analog(<<after.current, after.target>>)
                  ELSE Digital(after.current = after.target)
    IN IF index # 0 /\ self.stale_inputs[index]
       THEN [self |-> self, output |-> output]
       ELSE [self |-> after, output |-> replace(output, signal)]

\* One call on the counter: evaluate by step_logic with the signals of the
\* two input fans, or increment, decrement, reset by the application.
CallCounter(op, inputs) ==
    /\ cnt_hist.calls < MaxCounterCalls
    /\ LET r == CASE op = "evaluate" -> Counter_evaluate(counter, inputs, cnt_output)
                  [] op = "increment" -> [self |-> Counter_increment(counter), output |-> cnt_output]
                  [] op = "decrement" -> [self |-> Counter_decrement(counter), output |-> cnt_output]
                  [] op = "reset" -> [self |-> Counter_reset(counter), output |-> cnt_output]
           \* the output fan is wired to the reset input: so far every call
           \* was an evaluate that found the output's signal on that input
           looped == cnt_hist.looped /\ op = "evaluate" /\ inputs[1] = cnt_output
       IN /\ counter' = r.self
          /\ cnt_output' = r.output
          /\ cnt_hist' = [calls |-> cnt_hist.calls + 1, op |-> op,
                          inputs |-> IF op = "evaluate" THEN inputs ELSE cnt_hist.inputs,
                          prev_inputs |-> IF op = "evaluate" THEN cnt_hist.inputs
                                          ELSE cnt_hist.prev_inputs,
                          prev_current |-> counter.current,
                          start |-> cnt_hist.start,
                          looped |-> looped,
                          held |-> IF looped THEN Append(cnt_hist.held, inputs[2])
                                   ELSE <<>>,
                          loop_outputs |-> IF looped
                                           THEN Append(cnt_hist.loop_outputs, r.output)
                                           ELSE <<>>]
    /\ UNCHANGED <<tvars, scene_vars, dvars, selvars, calc, keypad>>

InitCounter ==
    /\ NoScene /\ NoDesyncCircuit /\ NoSelector /\ NoCall /\ NoKeypad
    /\ pc = "idle"
    /\ idx = 1
    /\ eval_log = <<>>
    /\ last_eval = NoEval
    /\ panic = "none"
    /\ \E target \in 0..MaxTarget, current \in 0..MaxTarget, signal_strength \in BOOLEAN :
          /\ current <= target
          /\ counter = [current |-> current, target |-> target,
                        signal_strength |-> signal_strength,
                        stale_inputs |-> <<FALSE, FALSE>>]
    /\ cnt_output = Undefined
    /\ cnt_hist = [calls |-> 0, op |-> "new", inputs |-> <<Undefined, Undefined>>,
                   prev_inputs |-> <<Undefined, Undefined>>,
                   prev_current |-> counter.current,
                   start |-> counter.current, looped |-> TRUE,
                   held |-> <<>>, loop_outputs |-> <<>>]

\* setup_scene: spawn_wire(&counter, 0, &counter, 0) puts the signal of the
\* counter's output on its reset input.
EvaluateLooped(signal) ==
    /\ ~counter.signal_strength
    /\ CallCounter("evaluate", <<cnt_output, signal>>)

NextCounter ==
    \/ \E inputs \in [1..2 -> InputSignals] : CallCounter("evaluate", inputs)
    \/ \E signal \in InputSignals : EvaluateLooped(signal)
    \/ CallCounter("increment", <<>>)
    \/ CallCounter("decrement", <<>>)
    \/ CallCounter("reset", <<>>)

SpecCounter == InitCounter /\ [][NextCounter]_vars

(***************************************************************************)
(* logic/signal.rs, components.rs, utils.rs: the operations on Signal and  *)
(* the evaluate of the stateless gates, each called once on arguments      *)
(* drawn from the sets below.  An evaluate gets its outputs as the output  *)
(* fans hold them after spawning, Undefined.                               *)
(***************************************************************************)
MaxInputs == 3
MaxPorts == 2

Signals == {Undefined, ON, OFF} \cup {Analog(v) : v \in Floats}
GateSignals == {Undefined, OFF, ON, NEG, Analog(F32.min_positive - 1), Analog(F32.nan)}
SignalOps == {"add", "sub", "max_abs"}
GateOps == {"And", "Not", "Or", "Nor", "Adder", "Xor", "LogicNode"}

\* What a call returns: the outcomes [panic, outputs].
outcomes(op, args, outputs) ==
    LET returns(value) == {[panic |-> FALSE, outputs |-> value]}
    IN CASE op = "add" -> returns(<<add(args[1], args[2])>>)
         [] op = "sub" -> returns(<<sub(args[1], args[2])>>)
         [] op = "max_abs" -> returns(<<max_abs(args[1], args[2])>>)
         [] op = "is_truthy" ->
               returns(<<Digital(is_truthy(args[1])), Digital(is_falsy(args[1]))>>)
         [] op = "is_odd" -> returns(<<is_odd(args[1])>>)
         [] op = "Xor" -> returns(XorGate_evaluate(args, outputs))
         [] op = "LogicNode" -> LogicNode_evaluate(args, outputs)
         [] OTHER -> returns(evaluate(op, args, outputs))

Call ==
    /\ calc.pending
    /\ \E r \in outcomes(calc.op, calc.args, calc.outputs) :
          IF r.panic
          THEN /\ Panicked("LogicNode inputs and outputs must be the same length")
               /\ calc' = [calc EXCEPT !.pending = FALSE]
               /\ UNCHANGED <<idx, eval_log, last_eval>>
          ELSE /\ calc' = [calc EXCEPT !.pending = FALSE, !.result = r.outputs]
               /\ UNCHANGED tvars
    /\ UNCHANGED <<scene_vars, dvars, selvars, cntvars, keypad>>

InitCalls ==
    /\ NoScene /\ NoDesyncCircuit /\ NoSelector /\ NoCounter /\ NoKeypad
    /\ pc = "idle"
    /\ idx = 1
    /\ eval_log = <<>>
    /\ last_eval = NoEval
    /\ panic = "none"
    /\ \/ \E op \in SignalOps \cup GateOps \cup {"is_truthy"} :
             \E args \in UNION {[1..k -> IF op \in GateOps THEN GateSignals ELSE Signals] :
                                   k \in 0..MaxInputs} :
                \E ports \in 0..MaxPorts :
                   /\ op \in SignalOps => Len(args) = 2 /\ ports = 0
                   /\ op = "is_truthy" => Len(args) = 1 /\ ports = 0
                   /\ calc = [op |-> op, args |-> args,
                              outputs |-> [i \in 1..ports |-> Undefined],
                              pending |-> TRUE, result |-> <<>>]
       \/ \E n \in I8 :
             calc = [op |-> "is_odd", args |-> <<n>>, outputs |-> <<>>,
                     pending |-> TRUE, result |-> <<>>]

SpecCalls == InitCalls /\ [][Call]_vars

(***************************************************************************)
(* examples/advanced_gates: the UI buttons.  A button is an entity with an *)
(* OutputBundle and NoEvalOutput; spawn_no_eval_wire runs a wire from it   *)
(* to an input fan of a gate.  The buttons are never added to the          *)
(* LogicGraph.  Button 1 drives two inputs here, button 2 one.             *)
(***************************************************************************)
MaxButtonTicks == 2

Buttons == {1, 2}
ButtonWires == <<[from |-> 1, to |-> In(1, 1)], [from |-> 1, to |-> In(2, 1)],
                 [from |-> 2, to |-> In(3, 1)]>>
ButtonInputs == {ButtonWires[w].to : w \in 1..Len(ButtonWires)}
Interactions == {"None", "Hovered", "Pressed"}

\* A propagation that stops at the wires.
propagate_no_eval_wires_only(k) ==
    [k EXCEPT !.wire = [w \in 1..Len(ButtonWires) |-> k.signal[ButtonWires[w].from]]]

\* LogicSystemSet::PropagateNoEval, which the crate's sources here do not
\* hold: the signal of every no-evaluation output is copied to its wires
\* and to their destination input fans.
propagate_no_eval(k) ==
    [k EXCEPT !.wire = [w \in 1..Len(ButtonWires) |-> k.signal[ButtonWires[w].from]],
              !.input = [f \in ButtonInputs |->
                            LET w == CHOOSE w \in 1..Len(ButtonWires) : ButtonWires[w].to = f
                            IN k.signal[ButtonWires[w].from]]]

\* bevy_ui sets the Interaction of a button; Changed<Interaction> holds for
\* each system until it has run.
Interact(b, i) ==
    /\ keypad # <<>>
    /\ i # keypad.interaction[b]
    /\ keypad' = [keypad EXCEPT !.interaction[b] = i, !.reserve_changed[b] = TRUE,
                                !.release_changed[b] = TRUE, !.op = "interact"]
    /\ UNCHANGED <<tvars, scene_vars, dvars, selvars, cntvars, calc>>

\* Update, before PropagateNoEval
reserve_ui_button_signal ==
    /\ keypad # <<>>
    /\ keypad' = [keypad EXCEPT
          !.signal = [b \in Buttons |->
                         IF keypad.reserve_changed[b] /\ keypad.interaction[b] = "Pressed"
                         THEN ON ELSE keypad.signal[b]],
          !.reserve_changed = [b \in Buttons |-> FALSE],
          !.op = "reserve"]
    /\ UNCHANGED <<tvars, scene_vars, dvars, selvars, cntvars, calc>>

PropagateNoEval ==
    /\ keypad # <<>>
    /\ keypad' = [propagate_no_eval(keypad) EXCEPT !.op = "propagate"]
    /\ UNCHANGED <<tvars, scene_vars, dvars, selvars, cntvars, calc>>

\* LogicUpdate, after StepLogic: one tick of the simulation has run.
release_ui_button_signals ==
    /\ keypad # <<>>
    /\ keypad.ticks < MaxButtonTicks
    /\ keypad' = [keypad EXCEPT
          !.signal = [b \in Buttons |->
                         IF ~keypad.release_changed[b] THEN keypad.signal[b]
                         ELSE IF keypad.interaction[b] = "Pressed" THEN ON ELSE OFF],
          !.release_changed = [b \in Buttons |-> FALSE],
          !.ticks = keypad.ticks + 1,
          !.op = "release"]
    /\ UNCHANGED <<tvars, scene_vars, dvars, selvars, cntvars, calc>>

InitKeypad ==
    /\ NoScene /\ NoDesyncCircuit /\ NoSelector /\ NoCounter /\ NoCall
    /\ pc = "idle"
    /\ idx = 1
    /\ eval_log = <<>>
    /\ last_eval = NoEval
    /\ panic = "none"
    /\ keypad = [interaction |-> [b \in Buttons |-> "None"],
                 reserve_changed |-> [b \in Buttons |-> TRUE],
                 release_changed |-> [b \in Buttons |-> TRUE],
                 signal |-> [b \in Buttons |-> Undefined],
                 wire |-> [w \in 1..Len(ButtonWires) |-> Undefined],
                 input |-> [f \in ButtonInputs |-> Undefined],
                 ticks |-> 0,
                 op |-> "spawn"]

NextKeypad ==
    \/ \E b \in Buttons : \E i \in Interactions : Interact(b, i)
    \/ reserve_ui_button_signal
    \/ PropagateNoEval
    \/ release_ui_button_signals

SpecKeypad == InitKeypad /\ [][NextKeypad]_vars

(***************************************************************************)
(* Graph notions the claims are stated with, defined from the edge set     *)
(* alone (independently of the walks above).                               *)
(***************************************************************************)
NodeSet == {graph.nodes[i] : i \in 1..Len(graph.nodes)}
EdgeSet == DOMAIN graph.edges
Successors(S) == S \cup {e[2] : e \in {d \in EdgeSet : d[1] \in S}}

RECURSIVE ReachableFrom(_)
ReachableFrom(S) == IF Successors(S) = S THEN S ELSE ReachableFrom(Successors(S))

Reaches(a, b) == b \in ReachableFrom({a})
SameComponent(a, b) == Reaches(a, b) /\ Reaches(b, a)
Acyclic == \A e \in EdgeSet : ~Reaches(e[2], e[1])
Fresh == compiled /\ stale = 0
Precedes(a, b) ==
    /\ position(sorted, a) > 0
    /\ position(sorted, b) > 0
    /\ position(sorted, a) < position(sorted, b)

\* C1: after compile() on an acyclic graph, every wire edge A -> B has A
\* before B in sorted().
C1_TopologicalOrder ==
    (Fresh /\ Acyclic) => \A e \in EdgeSet : Precedes(e[1], e[2])

C1_Witness ==
    /\ Fresh
    /\ Scene = Diamond
    /\ EdgeSet = {<<1, 2>>, <<1, 3>>, <<2, 4>>, <<3, 4>>}
    /\ Precedes(1, 2) /\ Precedes(1, 3) /\ Precedes(2, 4) /\ Precedes(3, 4)

\* C2: after compile() on a graph with cycles, the gates of each strongly
\* connected component are consecutive in sorted().
C2_ComponentsConsecutive ==
    (Fresh /\ ~Acyclic) =>
        \A i, j, k \in 1..Len(sorted) :
            (i < j /\ j < k /\ SameComponent(sorted[i], sorted[k]))
                => SameComponent(sorted[i], sorted[j])

C2_Witness ==
    /\ Fresh
    /\ Len(sorted) = 3
    /\ \E a, b \in NodeSet : a # b /\ SameComponent(a, b)
    /\ \E c \in NodeSet : \E a \in NodeSet : ~SameComponent(a, c)

\* C3: compile() terminates on every graph, self loops and multi-gate cycles
\* included (the walks end within 3V + 2E loop iterations), and every loop
\* comes out as one component of the run.
C3_CompileTerminates ==
    compiled =>
        /\ scc_run.ok
        /\ Fresh =>
              /\ scc_run.steps <= StepLimit(graph)
              /\ \A a, b \in NodeSet :
                    SameComponent(a, b) <=>
                        \E c \in 1..Len(scc_run.sccs) :
                            /\ position(scc_run.sccs[c], a) > 0
                            /\ position(scc_run.sccs[c], b) > 0

C3_Witness ==
    /\ Fresh
    /\ scc_run.ok
    /\ \E n \in NodeSet : <<n, n>> \in EdgeSet
    /\ \E a, b \in NodeSet : a # b /\ <<a, b>> \in EdgeSet
    /\ scc_run.steps > Len(graph.nodes)

\* C4: after compile(), sorted() holds every gate node of the graph exactly
\* once and nothing else.
C4_SortedIsTotal ==
    Fresh =>
        /\ Len(sorted) = Len(graph.nodes)
        /\ {sorted[i] : i \in 1..Len(sorted)} = NodeSet
        /\ \A i, j \in 1..Len(sorted) : sorted[i] = sorted[j] => i = j

C4_Witness ==
    /\ Fresh
    /\ Len(sorted) = 4
    /\ Cardinality(EdgeSet) = 4

(***************************************************************************)
(* The tick.                                                               *)
(***************************************************************************)
PassDone == pc = "stepping" /\ idx > Len(sorted)
Processed == pc = "stepping" /\ last_eval.gate # 0
WiresOf(ents) == UNION {out_wires[ents[i]] : i \in 1..Len(ents)}

\* C5: during one pass of step_logic, evaluate has been invoked exactly once
\* for each gate before the current position of sorted, in the order of
\* sorted, and for no other gate; when the pass is over the gates evaluated
\* are exactly sorted, each once.
C5_EvaluatedOnceInOrder ==
    pc = "stepping" =>
        /\ eval_log = SubSeq(sorted, 1, idx - 1)
        /\ \A i, j \in 1..Len(eval_log) : eval_log[i] = eval_log[j] => i = j
        /\ PassDone => eval_log = sorted

C5_Witness ==
    /\ PassDone
    /\ Len(sorted) >= 3
    /\ eval_log = sorted

\* C6: immediately after a gate has been processed, each of its output fans
\* holds the signal evaluate wrote for it, and every wire of that fan's wire
\* set and the wire's destination input fan hold that same signal.
C6_OutputsWiresAndInputsAgree ==
    Processed =>
        \A i \in 1..Len(last_eval.outputs) :
            /\ sig[last_eval.outputs[i]] = last_eval.signals[i]
            /\ \A w \in out_wires[last_eval.outputs[i]] :
                  /\ wire_sig[w] = last_eval.signals[i]
                  /\ sig[Scene.wires[w].to] = last_eval.signals[i]

\* C7: the inputs handed to evaluate have one entry per input slot of the
\* gate, and entry i is the signal of the fan in slot i whenever that slot
\* holds a fan with a signal.
C7_InputsKeepTheirSlots ==
    Processed =>
        /\ Len(last_eval.inputs) = Len(last_eval.fans)
        /\ \A i \in 1..Len(last_eval.fans) :
              last_eval.fans[i] # Absent => last_eval.inputs[i] = last_eval.fans[i]

\* C9 as stated: a pass does not run to its end while a gate of the world is
\* missing from sorted.
C9_UncompiledGateIsFatal ==
    PassDone => \A entity \in gate_alive : position(sorted, entity) > 0

\* C9, amended: a gate of sorted that is missing from the world (or lacks
\* LogicGateFans / a LogicGate) ends the tick with the lookup panic and is
\* not evaluated; every other gate of sorted is evaluated; a gate that is
\* not in sorted is never looked up nor evaluated.
C9_GateLookup ==
    /\ [](\A i \in 1..Len(eval_log) : position(sorted, eval_log[i]) > 0)
    /\ [][(pc = "stepping" /\ idx <= Len(sorted)) =>
            IF sorted[idx] \in gate_alive
            THEN eval_log' = Append(eval_log, sorted[idx])
            ELSE /\ pc' = "panicked"
                 /\ panic' = "Entity does not exist or does not have a LogicFans/LogicGate"
                 /\ eval_log' = eval_log]_vars

C9_Witness ==
    /\ PassDone
    /\ Len(sorted) >= 1
    /\ \E entity \in gate_alive : position(sorted, entity) = 0

\* C10: no gate is processed to the end while a wire of one of its output
\* fans leads to an input fan that is gone (or has no signal): the tick has
\* failed instead.
C10_MissingDestinationIsFatal ==
    Processed =>
        \A w \in WiresOf(last_eval.outputs) : sig[Scene.wires[w].to] # Absent

(***************************************************************************)
(* The graph commands.                                                     *)
(***************************************************************************)
Connected(w) == w \in wire_alive /\ w \in out_wires[Scene.wires[w].from]
WiresHaveEdges ==
    \A w \in Wires : Connected(w) => contains_edge(graph, from_gate(w), to_gate(w))
WireCommands == {"AddWireToLogicGraph", "RemoveWireFromLogicGraph"}

\* C11: once RemoveGateFromLogicGraph(G) was the last command, it has
\* completed, G is no node of the graph and not in sorted, no wire set holds
\* a wire that leads into an input fan of G, and no tick processes G (so
\* nothing is written through the wires that leave G).
C11_RemoveGateCleansUp ==
    \A G \in Gates :
        cmd = [op |-> "RemoveGateFromLogicGraph", entity |-> G] =>
            /\ panic # "Wire::from Entity does not have GateOutput component"
            /\ ~contains_node(graph, G)
            /\ position(sorted, G) = 0
            /\ \A f \in OutputFans : \A w \in out_wires[f] : to_gate(w) # G
            /\ last_eval.gate # G

\* C12: a wire command that completes keeps "every wire of a wire set has
\* the edge between the gates that own its two fans".
C12_WireCommandsKeepEdges ==
    [][(/\ WiresHaveEdges
        /\ edits' = edits + 1
        /\ cmd'.op \in WireCommands
        /\ pc' # "panicked") => WiresHaveEdges']_vars

\* C13: sorted is always what compile() yields on the current graph: every
\* graph command ends with compile(), so every tick runs on a fresh order.
C13_OrderIsFresh == sorted = compile(graph)

C13_Witness ==
    /\ cmd.op = "RemoveWireFromLogicGraph"
    /\ pc = "stepping"
    /\ idx > 1
    /\ Cardinality(EdgeSet) > 0

\* C14: once AddGateToLogicGraph(G) was the last command and completed, G
\* is a node and every wire connected to G, into its input fans or out of
\* its output fans, is an edge of the graph.
C14_AddGateAddsAllWires ==
    \A G \in Gates :
        (cmd = [op |-> "AddGateToLogicGraph", entity |-> G] /\ pc # "panicked") =>
            /\ contains_node(graph, G)
            /\ \A w \in Wires :
                  (Connected(w) /\ (from_gate(w) = G \/ to_gate(w) = G))
                      => contains_edge(graph, from_gate(w), to_gate(w))

(***************************************************************************)
(* The scheduler.                                                          *)
(***************************************************************************)
\* C15: a gate or wire with a desync counter n > 0 is skipped on each of
\* its next n ticks, its signals unchanged and the counter one lower per
\* skipped tick, and takes part normally from tick n + 1 on; one without a
\* counter takes part on every tick.
C15_DesyncSkipsThenRuns ==
    /\ [](pc = "idle" =>
            \A o \in Owners :
               LET n == IF tick.start[o] = NoDesync THEN 0 ELSE tick.start[o][1]
                   t == IF o \in OldWires /\ tick.phase = "evaluate"
                        THEN tick.count + 1 ELSE tick.count
               IN /\ tick.skipped[o] = IF t < n THEN t ELSE n
                  /\ tick.runs[o] = IF t < n THEN 0 ELSE t - n
                  /\ desync[o] = IF tick.start[o] = NoDesync THEN NoDesync
                                 ELSE Some(n - tick.skipped[o]))
    /\ [][/\ \A w \in OldWires :
               LET from == Oscillator.wires[w].source
                   to == Oscillator.wires[w].sink
               IN /\ tick'.skipped[w] > tick.skipped[w] =>
                        /\ logic'.wire[w] = logic.wire[w]
                        /\ logic'.sink[to] = logic.sink[to]
                  /\ tick'.runs[w] > tick.runs[w] =>
                        /\ logic'.wire[w] = logic.source[from]
                        /\ logic'.sink[to] = logic.source[from]
          /\ \A g \in OldGates :
               /\ tick'.skipped[g] > tick.skipped[g] =>
                     logic'.source[g] = logic.source[g]
               /\ tick'.runs[g] > tick.runs[g] =>
                     logic'.source[g] =
                        Digital(IF g = "N" THEN ~is_true(logic.sink[g])
                                ELSE is_true(logic.sink[g]))]_vars

\* A wire that started with counter 2 was skipped twice and then copied a
\* changed signal, next to a gate without a counter that ran on every tick.
C15_Witness ==
    /\ tick.start["W2"] = Some(2)
    /\ tick.skipped["W2"] = 2
    /\ tick.runs["W2"] = 2
    /\ logic.wire["W2"] = OFF
    /\ tick.start["N"] = NoDesync
    /\ tick.runs["N"] = tick.count

\* C16: the desync counter is raised by exactly 2 on increment and never
\* goes below zero, whatever the sequence of increment, decrement and tick
\* operations: no operation panics, and every counter stays a number >= 0
\* that moves by +2 or by -1 only.
C16_DesyncNeverBelowZero ==
    [][/\ panic' = panic
       /\ commands'.desync \in
             {commands.desync, commands.desync + 2, commands.desync - 1}
       /\ commands'.desync >= 0
       /\ \A o \in Owners :
             desync[o] # NoDesync =>
                /\ desync'[o] \in {desync[o], Some(desync[o][1] - 1)}
                /\ desync'[o][1] >= 0]_vars

\* C17: when no input but the cycle input is truthy, a false -> true
\* transition of the cycle input turns the active output i off and sets
\* output (i + 1) mod N to the cycle signal; while the cycle input then stays
\* truthy the outputs do not move.
C17_CycleAdvancesOnEachRisingEdge ==
    [][LET N == Len(sel_outputs)
           now == sel_hist'.inputs
           before == sel_hist.inputs
           only_cycle(inputs) ==
               is_truthy(inputs[1]) /\ \A k \in 2..Len(inputs) : ~is_truthy(inputs[k])
           Active == {i \in 1..N : is_truthy(sel_outputs[i])}
       IN (sel_hist'.evals = sel_hist.evals + 1 /\ sel_hist.evals >= 1 /\ only_cycle(now)) =>
             /\ (~is_truthy(before[1]) /\ Cardinality(Active) = 1) =>
                   LET i == CHOOSE a \in Active : TRUE
                   IN sel_outputs' =
                        [[sel_outputs EXCEPT ![i] = OFF] EXCEPT ![(i % N) + 1] = now[1]]
             /\ only_cycle(before) => sel_outputs' = sel_outputs]_vars

\* C18: whenever an input k >= 1 of the selector is truthy, the highest such
\* k wins: after evaluate output k - 1 carries that input's signal and every
\* other output is OFF, whatever the cycle input is.
C18_HighestInputWins ==
    \A k \in 2..Len(sel_hist.inputs) :
        (/\ is_truthy(sel_hist.inputs[k])
         /\ \A j \in (k + 1)..Len(sel_hist.inputs) : ~is_truthy(sel_hist.inputs[j])) =>
            sel_outputs =
               [i \in 1..Len(sel_outputs) |-> IF i = k - 1 THEN sel_hist.inputs[k] ELSE OFF]

\* Two inputs above the cycle input are truthy together with the cycle
\* input, and an output that was active before has been turned off.
C18_Witness ==
    /\ Len(sel_outputs) = 3
    /\ sel_hist.inputs = <<ON, ON, NEG, OFF>>
    /\ sel_hist.prev_outputs = <<ON, OFF, OFF>>
    /\ sel_outputs = <<OFF, NEG, OFF>>

\* C19: the counter reacts exactly once to every false -> true transition
\* of its count input that occurs while the reset input is falsy, whatever
\* the pulses on the two inputs were before: the rising edge moves current
\* one step (up, or down for a negative signal, within 0..target) and a
\* held-high count input moves it no further.
C19_CountsEveryRisingEdge ==
    [][LET now == cnt_hist'.inputs
           before == cnt_hist.inputs
           counting(inputs) == ~is_truthy(inputs[1]) /\ is_truthy(inputs[2])
           step == IF now[2][1] = "Analog" /\ now[2][2] < 0
                   THEN (IF counter.current > 0 THEN counter.current - 1 ELSE 0)
                   ELSE (IF counter.current < counter.target
                         THEN counter.current + 1 ELSE counter.target)
       IN (cnt_hist'.calls = cnt_hist.calls + 1 /\ cnt_hist'.op = "evaluate"
           /\ counting(now)) =>
             /\ ~is_truthy(before[2]) => counter'.current = step
             /\ counting(before) => counter'.current = counter.current]_vars

\* C20: a counter created with 0 <= current <= target keeps
\* 0 <= current <= target under evaluate, increment, decrement and reset;
\* increment does nothing at target, decrement nothing at 0, reset sets
\* current to 0.
C20_CurrentStaysInRange ==
    /\ 0 <= counter.current
    /\ counter.current <= counter.target
    /\ cnt_hist.op = "increment" =>
          counter.current = IF cnt_hist.prev_current = counter.target
                            THEN cnt_hist.prev_current ELSE cnt_hist.prev_current + 1
    /\ cnt_hist.op = "decrement" =>
          counter.current = IF cnt_hist.prev_current = 0
                            THEN 0 ELSE cnt_hist.prev_current - 1
    /\ cnt_hist.op = "reset" => counter.current = 0

\* The counter stood at a target above 0 and was told to increment, by a
\* call and then by a rising edge of its count input.
C20_Witness ==
    /\ counter.target > 0
    /\ cnt_hist.op = "evaluate"
    /\ cnt_hist.inputs = <<OFF, ON>>
    /\ ~is_truthy(cnt_hist.prev_inputs[2])
    /\ cnt_hist.prev_current = counter.target
    /\ counter.current = counter.target
    /\ counter.stale_inputs = <<FALSE, TRUE>>

\* C21: once the propagation of the no-evaluation outputs has run, every
\* wire of such an output and the wire's destination input hold the
\* output's signal, whether or not a tick of the simulation has run, the
\* output's owner being absent from the compiled order; running the
\* propagation again changes nothing.
C21_NoEvalOutputPropagates ==
    (keypad # <<>> /\ keypad.op = "propagate")
    => /\ \A w \in 1..Len(ButtonWires) :
             /\ keypad.wire[w] = keypad.signal[ButtonWires[w].from]
             /\ keypad.input[ButtonWires[w].to] = keypad.signal[ButtonWires[w].from]
       /\ propagate_no_eval(keypad) = keypad
       /\ \A i \in 1..Len(sorted) : sorted[i] \notin Buttons

C21_Witness ==
    /\ keypad # <<>>
    /\ keypad.op = "propagate"
    /\ keypad.ticks = 0
    /\ sorted = <<>>
    /\ keypad.signal = <<ON, Undefined>>
    /\ keypad.wire = <<ON, ON, Undefined>>
    /\ keypad.input[In(1, 1)] = ON
    /\ keypad.input[In(2, 1)] = ON
    /\ keypad.input[In(3, 1)] = Undefined

\* C22: for every signal s, s + Undefined, Undefined + s, s - Undefined and
\* Undefined - s are all Undefined.
C22_UndefinedAbsorbs ==
    (/\ calc # <<>>
     /\ calc.op \in {"add", "sub"}
     /\ ~calc.pending
     /\ Undefined \in {calc.args[1], calc.args[2]})
    => calc.result = <<Undefined>>

C22_Witness ==
    /\ calc # <<>>
    /\ calc.op = "sub"
    /\ calc.args = <<Undefined, Analog(F32.nan)>>
    /\ ~calc.pending
    /\ calc.result = <<Undefined>>

\* C23 as stated: is_truthy holds exactly of Digital(true) and of Analog(x)
\* with x non-zero and finite, and is_falsy is its negation.
C23_TruthyIffNonZeroFinite ==
    (/\ calc # <<>>
     /\ calc.op = "is_truthy"
     /\ ~calc.pending)
    => LET s == calc.args[1]
           truthy == \/ s = ON
                     \/ /\ s[1] = "Analog"
                        /\ s[2] # 0
                        /\ s[2] \notin {F32.nan, F32.infinity, -F32.infinity}
       IN calc.result = <<Digital(truthy), Digital(~truthy)>>

\* C23: is_truthy holds exactly of Digital(true) and of Analog(x) with x
\* normal (not zero, not subnormal, not infinite, not NaN); it is false of
\* Digital(false), Undefined, Analog(0) and Analog(NaN); is_falsy is the
\* negation of is_truthy on every signal.
C23_TruthyIffNormal ==
    (/\ calc # <<>>
     /\ calc.op = "is_truthy"
     /\ ~calc.pending)
    => LET s == calc.args[1]
           subnormal == (1 - F32.min_positive)..(F32.min_positive - 1)
           truthy == \/ s = ON
                     \/ /\ s[1] = "Analog"
                        /\ s[2] \notin subnormal
                        /\ s[2] \notin {F32.nan, F32.infinity, -F32.infinity}
       IN /\ calc.result = <<Digital(truthy), Digital(~truthy)>>
          /\ s \in {OFF, Undefined, Analog(0), Analog(F32.nan)}
                => calc.result = <<OFF, ON>>

C23_Witness ==
    /\ calc # <<>>
    /\ calc.op = "is_truthy"
    /\ calc.args = <<Analog(1 - F32.min_positive)>>
    /\ ~calc.pending
    /\ calc.result = <<OFF, ON>>

\* C24: for every input sequence, the empty one included, and any number
\* of outputs, the AND gate writes Digital(b) to every output, b being true
\* iff all inputs are truthy.
C24_AndWritesAllTruthy ==
    (/\ calc # <<>>
     /\ calc.op = "And"
     /\ ~calc.pending)
    => /\ Len(calc.result) = Len(calc.outputs)
       /\ \A o \in 1..Len(calc.result) :
             calc.result[o] =
                Digital(\A i \in 1..Len(calc.args) : is_truthy(calc.args[i]))

C24_Witness ==
    /\ calc # <<>>
    /\ calc.op = "And"
    /\ calc.args = <<>>
    /\ ~calc.pending
    /\ calc.result = <<ON, ON>>

\* C25: the OR gate writes to every output, in plain mode Digital(true) iff
\* any input is truthy, with invert_output the negation of that, and with
\* is_adder the sum of the inputs from left to right starting at OFF, which
\* is Undefined when an input is Undefined and the logical OR when all
\* inputs are digital.
C25_OrPlainInvertedAdder ==
    (/\ calc # <<>>
     /\ calc.op \in {"Or", "Nor", "Adder"}
     /\ ~calc.pending)
    => LET inputs == calc.args
           any == \E i \in 1..Len(inputs) : is_truthy(inputs[i])
           expected == CASE calc.op = "Or" -> Digital(any)
                         [] calc.op = "Nor" -> Digital(~any)
                         [] calc.op = "Adder" -> fold_add(OFF, inputs)
       IN /\ Len(calc.result) = Len(calc.outputs)
          /\ \A o \in 1..Len(calc.result) : calc.result[o] = expected
          /\ calc.op = "Adder" /\ (\E i \in 1..Len(inputs) : inputs[i] = Undefined)
                => expected = Undefined
          /\ calc.op = "Adder" /\ (\A i \in 1..Len(inputs) : inputs[i] \in {ON, OFF})
                => expected = Digital(\E i \in 1..Len(inputs) : inputs[i] = ON)

C25_Witness ==
    /\ calc # <<>>
    /\ calc.op = "Nor"
    /\ calc.args = <<OFF, NEG>>
    /\ ~calc.pending
    /\ calc.result = <<OFF, OFF>>

\* C26: for every input sequence the NOT gate writes to every output the
\* negation of what the AND gate writes for the same inputs, Digital(true)
\* iff not all inputs are truthy.
C26_NotNegatesAnd ==
    (/\ calc # <<>>
     /\ calc.op = "Not"
     /\ ~calc.pending)
    => /\ Len(calc.result) = Len(calc.outputs)
       /\ \A o \in 1..Len(calc.result) :
             /\ calc.result[o] = not(AndGate_evaluate(calc.args, calc.outputs)[o])
             /\ calc.result[o] =
                   Digital(~(\A i \in 1..Len(calc.args) : is_truthy(calc.args[i])))

C26_Witness ==
    /\ calc # <<>>
    /\ calc.op = "Not"
    /\ calc.args = <<ON, Undefined>>
    /\ ~calc.pending
    /\ calc.result = <<ON, ON>>

\* C27: for every input sequence the XOR gate's output is true iff the
\* number of truthy inputs is odd.
C27_XorOddCount ==
    (/\ calc # <<>>
     /\ calc.op = "Xor"
     /\ ~calc.pending)
    => LET count == Cardinality({i \in 1..Len(calc.args) : is_truthy(calc.args[i])})
           odd == \E k \in 0..Len(calc.args) : count = 2 * k + 1
       IN /\ Len(calc.result) = Len(calc.outputs)
          /\ \A o \in 1..Len(calc.result) : calc.result[o] = Digital(odd)

C27_Witness ==
    /\ calc # <<>>
    /\ calc.op = "Xor"
    /\ calc.args = <<ON, NEG, ON>>
    /\ ~calc.pending
    /\ calc.result = <<ON>>

\* C28: evaluating a passthrough node whose input count differs from its
\* output count is fatal and writes no output; with equal counts output i
\* is input i.
C28_LengthMismatchIsFatal ==
    (/\ calc # <<>>
     /\ calc.op = "LogicNode"
     /\ ~calc.pending)
    => IF Len(calc.args) # Len(calc.outputs)
       THEN pc = "panicked" /\ calc.result = <<>>
       ELSE pc = "idle" /\ calc.result = calc.args

\* C29: max_abs(a, b) is one of a and b, the one of larger magnitude with
\* ON of magnitude 1 and OFF of magnitude 0, and the other operand when one
\* is Undefined; when the magnitudes differ max_abs(a, b) = max_abs(b, a).
C29_MaxAbsLargerMagnitude ==
    (/\ calc # <<>>
     /\ calc.op = "max_abs"
     /\ ~calc.pending)
    => LET a == calc.args[1]
           b == calc.args[2]
           r == calc.result[1]
           measured(s) == s # Undefined /\ s # Analog(F32.nan)
           magnitude(s) == CASE s = ON -> F32.one
                             [] s = OFF -> 0
                             [] OTHER -> IF s[2] < 0 THEN -s[2] ELSE s[2]
       IN /\ r \in {a, b}
          /\ a = Undefined => r = b
          /\ b = Undefined => r = a
          /\ measured(a) /\ measured(b) =>
                /\ magnitude(a) > magnitude(b) => r = a
                /\ magnitude(b) > magnitude(a) => r = b
                /\ magnitude(a) # magnitude(b) => max_abs(a, b) = max_abs(b, a)

\* C30: from one state of the graph, the compiled order and the port and
\* wire signals, the evaluation of the next gate of a tick leaves the same
\* port and wire signals whatever the order in which the wire sets are
\* iterated, so that two simulations given the same ticks stay equal after
\* every tick, feedback loops included.
C30_TickIsDeterministic ==
    (/\ pc = "stepping"
     /\ idx <= Len(sorted)
     /\ has_logic_gate(sorted[idx]))
    => LET entity == sorted[idx]
           ents == output_entities(Scene.outputs[entity])
           signals == evaluate(Scene.kind[entity],
                               input_signals(Scene.inputs[entity]), output_signals(ents))
           written(order) ==
               update_outputs([sig |-> sig, wire_sig |-> wire_sig], ents, signals, order)
       IN \A o1, o2 \in IterationOrders(ents) : written(o1) = written(o2)

C30_Witness ==
    /\ Scene = Ring
    /\ pc = "stepping"
    /\ last_eval # NoEval
    /\ last_eval.gate = 1
    /\ Cardinality(out_wires[Out(1, 1)]) = 2
    /\ sig[Out(1, 1)] = OFF
    /\ \A w \in out_wires[Out(1, 1)] :
          wire_sig[w] = OFF /\ sig[Scene.wires[w].to] = OFF

\* C31: is_odd(n) is true exactly when n is not divisible by 2, the
\* negative values of a signed type included.
C31_OddIffNotDivisibleByTwo ==
    (/\ calc # <<>>
     /\ calc.op = "is_odd"
     /\ ~calc.pending)
    => LET n == calc.args[1]
           divisible == \E k \in I8 : n = 2 * k
       IN calc.result = <<~divisible>>

C31_Witness ==
    /\ calc # <<>>
    /\ calc.op = "is_odd"
    /\ calc.args = <<-(2 ^ (I8_BITS - 1)) + 1>>
    /\ ~calc.pending
    /\ calc.result = <<TRUE>>

\* C32: after compile() on any graph, cyclic or not, an edge A -> B between
\* gates of different strongly connected components has A before B in
\* sorted().
C32_OrderAcrossComponents ==
    Fresh => \A e \in EdgeSet :
                ~SameComponent(e[1], e[2]) => Precedes(e[1], e[2])

C32_Witness ==
    /\ Fresh
    /\ Scene = Ring
    /\ EdgeSet = {<<1, 2>>, <<2, 1>>, <<2, 3>>, <<1, 3>>}
    /\ SameComponent(1, 2)
    /\ ~SameComponent(2, 3)
    /\ Precedes(1, 3) /\ Precedes(2, 3)

\* C33: the tick loop of run_fixed_main_schedule ends in every update for
\* every clock that can be constructed, the Default one included: the
\* timestep is never zero, so every pass takes time off the overstep.
C33_TickLoopTerminates ==
    /\ time.timestep # ZERO
    /\ update.pc = "expending" =>
          update.passes <= update.start.overstep + update.delta

\* C34: over updates with an unchanged timestep and without
\* discard_overstep, ticks run so far x timestep + overstep is the elapsed
\* time accumulated so far.
C34_NoTimeLostOrCountedTwice ==
    update.steady =>
        /\ update.ticks * time.timestep + time.overstep = update.accumulated
        /\ time.elapsed = update.ticks * time.timestep

C34_Witness ==
    /\ update.steady
    /\ update.pc = "done"
    /\ update.count >= 2
    /\ update.ticks >= 2
    /\ update.passes < update.ticks
    /\ time.overstep > 0
    /\ update.ticks * time.timestep + time.overstep = update.accumulated

\* The circuit as its setup built it: every gate, fan and wire exists, and
\* the graph holds every gate and the edge of every wire.
Intact ==
    /\ gate_alive = Gates
    /\ wire_alive = Wires
    /\ \A f \in Fans : sig[f] # Absent
    /\ \A f \in OutputFans : out_wires[f] = {w \in Wires : Scene.wires[w].from = f}
    /\ NodeSet = Gates
    /\ EdgeSet = {<<from_gate(w), to_gate(w)>> : w \in Wires}
SingleDriver ==
    \A f \in InputFans : Cardinality({w \in Wires : Scene.wires[w].to = f}) <= 1
\* Every gate's outputs are its evaluation of its input fans' signals, and
\* every wire and its destination hold the signal of the wire's source.
Settled ==
    /\ \A g \in Gates :
          LET ents == output_entities(Scene.outputs[g])
          IN output_signals(ents) =
                evaluate(Scene.kind[g], input_signals(Scene.inputs[g]), output_signals(ents))
    /\ \A w \in Wires :
          /\ wire_sig[w] = sig[Scene.wires[w].from]
          /\ sig[Scene.wires[w].to] = sig[Scene.wires[w].from]

\* C35: in a compiled acyclic circuit of stateless gates whose input fans
\* have at most one incoming wire each, when a tick is over every gate's
\* outputs are its evaluation of the current signals of its input fans, and
\* a further tick without a change from outside alters no fan or wire signal.
C35_OneTickSettles ==
    /\ [](PassDone /\ Fresh /\ Acyclic /\ Intact /\ SingleDriver => Settled)
    /\ [][(Fresh /\ Acyclic /\ Intact /\ SingleDriver /\ Settled /\ edits' = edits)
             => (sig' = sig /\ wire_sig' = wire_sig)]_vars

C35_Witness ==
    /\ Scene = Diamond
    /\ Fresh /\ Acyclic /\ Intact /\ SingleDriver /\ Settled
    /\ pc = "stepping"
    /\ idx = 3
    /\ sig[Out(1, 1)] = ON
    /\ sig[Out(4, 1)] = OFF
    /\ sig[In(4, 2)] = OFF

\* C36: a NOT gate whose output is wired to its own input, compiled and
\* starting from Undefined signals, outputs true on the first tick and on
\* every later tick the negation of its previous output.
C36_NotLoopOscillates ==
    /\ [](Scene = NotLoop /\ edits = 0 =>
             /\ sig[Out(1, 1)] \in {Undefined, ON, OFF}
             /\ sig[In(1, 1)] = sig[Out(1, 1)])
    /\ [][(/\ Scene = NotLoop
            /\ edits' = 0
            /\ pc = "stepping"
            /\ idx <= Len(sorted)
            /\ idx' = idx + 1
            /\ sorted[idx] = 1)
           => sig'[Out(1, 1)] = IF sig[Out(1, 1)] = Undefined THEN ON
                                ELSE Digital(sig[Out(1, 1)] = OFF)]_vars

C36_Witness ==
    /\ Scene = NotLoop
    /\ edits = 0
    /\ pc = "stepping"
    /\ last_eval.gate = 1
    /\ last_eval.inputs = <<ON>>
    /\ sig[Out(1, 1)] = OFF
    /\ sig[In(1, 1)] = OFF

\* A counter with target 1, created at 0, whose output has fed its reset
\* input in every evaluation so far.
OneShot ==
    /\ counter.target = 1
    /\ ~counter.signal_strength
    /\ cnt_hist.start = 0
    /\ cnt_hist.looped
    /\ cnt_hist.calls >= 1
PulseThenOff ==
    \A i \in 1..Len(cnt_hist.loop_outputs) :
        cnt_hist.loop_outputs[i] = IF i = 1 THEN ON ELSE OFF

C38_ExactlyOneOutputTruthy ==
    (sel_hist # <<>> /\ sel_hist.evals >= 1)
    => Cardinality({i \in 1..Len(sel_outputs) : is_truthy(sel_outputs[i])}) = 1

C38_Witness ==
    /\ sel_hist # <<>>
    /\ sel_hist.evals >= 2
    /\ Len(sel_outputs) = MaxOutputs
    /\ sel_hist.prev_outputs[1] = ON
    /\ sel_hist.inputs[1] = NEG
    /\ \A i \in 2..Len(sel_hist.inputs) : sel_hist.inputs[i] = OFF
    /\ sel_outputs[1] = OFF
    /\ sel_outputs[2] = NEG
    /\ Cardinality({i \in 1..Len(sel_outputs) : is_truthy(sel_outputs[i])}) = 1

\* C39: add_wire(from_gate, to_gate, w) makes both gates nodes of the graph
\* even when add_gate was never called for them; after the next compile()
\* both are in sorted(), and a tick evaluates both.
C39_AddWireAddsItsGates ==
    /\ (cmd.op = "AddWireToLogicGraph" /\ panic = "none") =>
          LET wire == Scene.wires[cmd.entity]
          IN /\ {Parent(wire.from), Parent(wire.to)} \subseteq NodeSet
             /\ <<Parent(wire.from), Parent(wire.to)>> \in EdgeSet
    /\ Fresh => \A e \in EdgeSet : position(sorted, e[1]) > 0 /\ position(sorted, e[2]) > 0
    /\ PassDone => \A e \in EdgeSet :
                      /\ \E i \in 1..Len(eval_log) : eval_log[i] = e[1]
                      /\ \E i \in 1..Len(eval_log) : eval_log[i] = e[2]

C39_Witness ==
    /\ cmd.op = "AddWireToLogicGraph"
    /\ edits = 1
    /\ Cardinality(EdgeSet) = 1
    /\ Cardinality(NodeSet) = 2
    /\ PassDone
    /\ Len(eval_log) = 2
    /\ \A e \in EdgeSet : eval_log = <<e[1], e[2]>>

\* C40: when wires from outputs of different gates lead into one input fan,
\* at the end of a tick the fan holds the signal of the wire whose source
\* gate is last in the compiled order: the later write replaces the earlier
\* one and the signals are not combined.
C40_LastWriterWins ==
    (PassDone /\ Fresh /\ Intact) =>
        \A f \in InputFans :
            LET ws == {w \in Wires : Scene.wires[w].to = f}
            IN (ws # {} /\ \A v, w \in ws : v # w => from_gate(v) # from_gate(w)) =>
                  \E w \in ws :
                     /\ \A v \in ws : position(sorted, from_gate(v))
                                          <= position(sorted, from_gate(w))
                     /\ sig[f] = wire_sig[w]
                     /\ sig[f] = sig[Scene.wires[w].from]

C40_Witness ==
    /\ Scene = FanIn
    /\ PassDone /\ Fresh /\ Intact
    /\ sig[Out(1, 1)] = ON
    /\ sig[Out(2, 1)] = OFF
    /\ wire_sig[1] = ON
    /\ wire_sig[2] = OFF
    /\ sig[In(3, 1)] = IF Precedes(1, 2) THEN OFF ELSE ON

\* C8: in one update with elapsed time delta, every pass takes one timestep
\* off the overstep and advances the logic clock by one timestep; when the
\* update is over the passes run are floor((overstep before + delta) /
\* timestep) and the overstep is below the timestep.
C8_PassesPerUpdate ==
    /\ update.pc \in {"expending", "done"} =>
          /\ time.overstep + update.passes * time.timestep
                = update.start.overstep + update.delta
          /\ time.elapsed = update.start.elapsed + update.passes * time.timestep
    /\ update.pc = "done" =>
          /\ time.overstep < time.timestep
          /\ update.passes = (update.start.overstep + update.delta) \div time.timestep

C8_Witness ==
    /\ update.pc = "done"
    /\ update.start.overstep > 0
    /\ update.passes >= 2
    /\ time.overstep > 0

====
